---- MODULE Spec2Model ----
(***************************************************************************)
(* Account scheduling and resilient request execution of the image         *)
(* generation plugin: selectAccount and the recording mutators             *)
(* (accounts.ts), and generateImage with its per-endpoint retry policy     *)
(* (api.ts).                                                               *)
(*                                                                         *)
(* Timestamps are milliseconds, as in the source.  Optional numeric fields *)
(* (lastUsed?, rateLimitedUntil?) hold Undefined when absent; the optional *)
(* cachedImageQuota is a sequence of length 0 (absent) or 1.               *)
(***************************************************************************)
EXTENDS Integers, Sequences, FiniteSets, TLC

VARIABLES
    config,     \* AccountsConfig.accounts: the sequence of Account records
    clock,      \* what Date.now() returns
    call,       \* the last call made on the accounts module, with its result
    limitedAt,  \* history: per account, the `now` of its last markRateLimited
    rr,         \* history: the selectAccount + markUsed cycles made so far
    pc,         \* generateImage: where the call stands
    baseUrl,    \* generateImage: position of the endpoint loop in CLOUDCODE_FALLBACK_URLS
    retry,      \* generateImage: the retry counter of the 503 loop
    allRateLimited,
    allCapacity,
    lastError,
    result,     \* generateImage: the ImageGenerationResult returned
    trace,      \* history: the attempts and backoff sleeps of the call, in order
    store,      \* the accounts file: the accounts of the persisted AccountsConfig
    exec,       \* generate_image.execute: per logical call, its locals and position
    history,    \* history: the dispatches and recordings of the logical calls, in order
    req,        \* attemptGeneration: the request under way, its timer and the time elapsed
    sessions    \* the session files of the worktree: their paths and contents

schedVars == <<config, clock, call, limitedAt, rr>>

genVars == <<pc, baseUrl, retry, allRateLimited, allCapacity, lastError, result, trace>>

execVars == <<store, exec, history>>

vars == <<config, clock, call, limitedAt, rr,
          pc, baseUrl, retry, allRateLimited, allCapacity, lastError, result, trace,
          store, exec, history, req, sessions>>

\* no logical call and no request is under way
NoExecution ==
    /\ store = << >>
    /\ exec = << >>
    /\ history = << >>
    /\ req = << >>
    /\ sessions = {}

-----------------------------------------------------------------------------
(* Bounds of the model *)

\* largest number of accounts made by makeConfig
MaxAccounts == 3

\* largest timestamp (in ms) handed to markUsed in the round-robin cycles
MaxStamp == 5

\* timestamps range over 0, Tick, ..., MaxTicks * Tick
MaxTicks == 2

-----------------------------------------------------------------------------
(* Constants of the program *)

\* `lastUsed?: number`, `rateLimitedUntil?: number`: the field is absent
Undefined == -1

MAX_RETRIES == 3

RATE_LIMIT_COOLDOWN_MS == 5 * 60 * 1000

\* SOFT_QUOTA_THRESHOLD = 0.1; fractions are counted in hundredths
SOFT_QUOTA_THRESHOLD == 10

QUOTA_CACHE_TTL_MS == 5 * 60 * 1000

\* granularity of the timestamps the model draws: one cooldown, which is also
\* one freshness window
Tick == RATE_LIMIT_COOLDOWN_MS

\* reference times (`now`, Date.now())
Time == { k * Tick : k \in 0..MaxTicks }

\* timestamps recorded earlier in an account
Recorded == { k * Tick : k \in 0..(MaxTicks - 1) }

\* makeConfig's emails: user1@test.com, user2@test.com, ...
Email(i) == <<"user", i, "@test.com">>

UNKNOWN_EMAIL == <<"unknown", 0, "@test.com">>

EmailsOf(accounts) == { accounts[i].email : i \in DOMAIN accounts }

\* remainingFraction values, in hundredths: empty, at the threshold, one above
Fractions == { 0, SOFT_QUOTA_THRESHOLD, SOFT_QUOTA_THRESHOLD + 1 }

NoQuota == << >>

Quota(fraction, reset, updated) ==
    << [remainingFraction |-> fraction, resetTime |-> reset, updatedAt |-> updated] >>

Account(e, used, limited, quota) ==
    [email |-> e, lastUsed |-> used, rateLimitedUntil |-> limited,
     cachedImageQuota |-> quota]

\* makeConfig(count): accounts without any runtime state
makeConfig(count) ==
    [i \in 1..count |-> Account(Email(i), Undefined, Undefined, NoQuota)]

-----------------------------------------------------------------------------
(* accounts.ts *)

\* mutant: an account never used sorts after every used one
OrZero_AbsentLast(x) == IF x = Undefined \/ x = 0 THEN 1000000000 ELSE x

\* JavaScript `x || 0` on an optional number: absent and 0 both give 0
OrZero(x) == IF x = Undefined \/ x = 0 THEN 0 ELSE x

\* JavaScript truthiness of an optional number
Truthy(x) == x # Undefined /\ x # 0

\* mutant: the threshold itself still counts as headroom
isSoftQuotaExceeded_StrictThreshold(account, dateNow) ==
    LET quota == account.cachedImageQuota IN
    IF quota = NoQuota THEN FALSE
    ELSE IF dateNow - quota[1].updatedAt > QUOTA_CACHE_TTL_MS THEN FALSE
    ELSE quota[1].remainingFraction < SOFT_QUOTA_THRESHOLD

\* mutant: a cached quota is stale as soon as its age reaches the window
isSoftQuotaExceeded_StaleAtWindow(account, dateNow) ==
    LET quota == account.cachedImageQuota IN
    IF quota = NoQuota THEN FALSE
    ELSE IF dateNow - quota[1].updatedAt >= QUOTA_CACHE_TTL_MS THEN FALSE
    ELSE quota[1].remainingFraction <= SOFT_QUOTA_THRESHOLD

isSoftQuotaExceeded(account, dateNow) ==
    LET quota == account.cachedImageQuota IN
    IF quota = NoQuota THEN FALSE
    ELSE IF dateNow - quota[1].updatedAt > QUOTA_CACHE_TTL_MS THEN FALSE
    ELSE quota[1].remainingFraction <= SOFT_QUOTA_THRESHOLD

\* mutant: the exclusion list is not consulted
Skipped_IgnoringExclusions(a, excludeEmails, now) ==
    Truthy(a.rateLimitedUntil) /\ a.rateLimitedUntil > now

\* mutant: a cooldown still counts at the instant it ends
Skipped_InclusiveCooldown(a, excludeEmails, now) ==
    \/ a.email \in excludeEmails
    \/ (Truthy(a.rateLimitedUntil) /\ a.rateLimitedUntil >= now)

\* the loop's two `continue` tests
Skipped(a, excludeEmails, now) ==
    \/ a.email \in excludeEmails
    \/ (Truthy(a.rateLimitedUntil) /\ a.rateLimitedUntil > now)

\* indices (in config order) pushed to `available` / `softQuotaExceeded`
AvailableIdx(accounts, excludeEmails, now, dateNow) ==
    { i \in DOMAIN accounts :
        /\ ~Skipped(accounts[i], excludeEmails, now)
        /\ ~isSoftQuotaExceeded(accounts[i], dateNow) }

\* mutant: soft-quota-exceeded accounts are not kept as a last resort
SoftQuotaExceededIdx_Dropped(accounts, excludeEmails, now, dateNow) == {}

SoftQuotaExceededIdx(accounts, excludeEmails, now, dateNow) ==
    { i \in DOMAIN accounts :
        /\ ~Skipped(accounts[i], excludeEmails, now)
        /\ isSoftQuotaExceeded(accounts[i], dateNow) }

\* mutant: the sort is not stable, the last of the smallest keys comes first
SortedFirst_LastOfTies(accounts, pool) ==
    CHOOSE i \in pool :
        \A j \in pool :
            \/ OrZero(accounts[i].lastUsed) < OrZero(accounts[j].lastUsed)
            \/ (OrZero(accounts[i].lastUsed) = OrZero(accounts[j].lastUsed) /\ i >= j)

\* pool.sort((a, b) => (a.lastUsed || 0) - (b.lastUsed || 0)); return pool[0]
\* the sort is stable: the first element is the earliest of the smallest keys
SortedFirst(accounts, pool) ==
    CHOOSE i \in pool :
        \A j \in pool :
            \/ OrZero(accounts[i].lastUsed) < OrZero(accounts[j].lastUsed)
            \/ (OrZero(accounts[i].lastUsed) = OrZero(accounts[j].lastUsed) /\ i <= j)

\* `return null`
Null == 0

\* mutant: no last resort, null when no account has quota headroom
selectAccount_NoLastResort(accounts, excludeEmails, now, dateNow) ==
    LET available == { i \in DOMAIN accounts :
                        /\ accounts[i].email \notin excludeEmails
                        /\ ~(accounts[i].rateLimitedUntil > now)
                        /\ ~isSoftQuotaExceeded(accounts[i], dateNow) }
    IN  IF available = {} THEN Null
        ELSE CHOOSE i \in available :
                \A j \in available :
                    \/ OrZero(accounts[i].lastUsed) < OrZero(accounts[j].lastUsed)
                    \/ (OrZero(accounts[i].lastUsed) = OrZero(accounts[j].lastUsed)
                        /\ i <= j)

\* mutant: one pool, the soft quota is not looked at
selectAccount_OnePool(accounts, excludeEmails, now, dateNow) ==
    LET pool == { i \in DOMAIN accounts : ~Skipped(accounts[i], excludeEmails, now) }
    IN  IF pool = {} THEN Null ELSE SortedFirst(accounts, pool)

\* selectAccount(config, excludeEmails, now), where Date.now() = dateNow;
\* the result is the position in config.accounts of the account returned, or Null
selectAccount(accounts, excludeEmails, now, dateNow) ==
    LET available == AvailableIdx(accounts, excludeEmails, now, dateNow)
        softQuotaExceeded == SoftQuotaExceededIdx(accounts, excludeEmails, now, dateNow)
        pool == IF available # {} THEN available ELSE softQuotaExceeded
    IN  IF pool = {} THEN Null ELSE SortedFirst(accounts, pool)

\* mutant: without a match the first account is taken
Find_FirstIfMissing(accounts, email) ==
    IF \E i \in DOMAIN accounts : accounts[i].email = email
    THEN CHOOSE i \in DOMAIN accounts :
            /\ accounts[i].email = email
            /\ \A j \in 1..(i - 1) : accounts[j].email # email
    ELSE IF Len(accounts) > 0 THEN 1 ELSE Null

\* config.accounts.find((a) => a.email === email): the first match, or Null
Find(accounts, email) ==
    IF \E i \in DOMAIN accounts : accounts[i].email = email
    THEN CHOOSE i \in DOMAIN accounts :
            /\ accounts[i].email = email
            /\ \A j \in 1..(i - 1) : accounts[j].email # email
    ELSE Null

\* mutant: the use is not recorded
markUsed_NotRecorded(accounts, email, now) == accounts

\* mutant: a use also ends the account's cooldown
markUsed_ClearsCooldown(accounts, email, now) ==
    LET account == Find(accounts, email) IN
    IF account # Null
    THEN [accounts EXCEPT ![account].lastUsed = now,
                          ![account].rateLimitedUntil = Undefined]
    ELSE accounts

markUsed(accounts, email, now) ==
    LET account == Find(accounts, email) IN
    IF account # Null
    THEN [accounts EXCEPT ![account].lastUsed = now]
    ELSE accounts

markRateLimited_NoCooldown(accounts, email, now) ==
    LET account == Find(accounts, email)
    IN  IF account # Null
        THEN [accounts EXCEPT ![account].rateLimitedUntil = now]
        ELSE accounts

\* mutant: a cooldown that ends later than the new one is kept
markRateLimited_KeepsLater(accounts, email, now) ==
    LET account == Find(accounts, email)
    IN  IF account # Null
        THEN [accounts EXCEPT ![account].rateLimitedUntil =
                IF @ > now + RATE_LIMIT_COOLDOWN_MS THEN @
                ELSE now + RATE_LIMIT_COOLDOWN_MS]
        ELSE accounts

markRateLimited(accounts, email, now) ==
    LET account == Find(accounts, email) IN
    IF account # Null
    THEN [accounts EXCEPT ![account].rateLimitedUntil = now + RATE_LIMIT_COOLDOWN_MS]
    ELSE accounts

\* mutant: the observation is merged into the previous one, an absent
\* resetTime leaving the earlier one in place
updateCachedQuota_Merged(accounts, email, remainingFraction, resetTime, dateNow) ==
    LET account == Find(accounts, email)
    IN  IF account # Null
        THEN [accounts EXCEPT ![account].cachedImageQuota =
                IF @ # NoQuota /\ resetTime = Undefined
                THEN Quota(remainingFraction, @[1].resetTime, dateNow)
                ELSE Quota(remainingFraction, resetTime, dateNow)]
        ELSE accounts

\* updateCachedQuota(config, email, remainingFraction, resetTime), Date.now() = dateNow
updateCachedQuota(accounts, email, remainingFraction, resetTime, dateNow) ==
    LET account == Find(accounts, email) IN
    IF account # Null
    THEN [accounts EXCEPT ![account].cachedImageQuota =
                                Quota(remainingFraction, resetTime, dateNow)]
    ELSE accounts

-----------------------------------------------------------------------------
(* api.ts: attemptGeneration and generateImage *)

CLOUDCODE_FALLBACK_URLS ==
    << "https://daily-cloudcode-pa.googleapis.com",
       "https://daily-cloudcode-pa.sandbox.googleapis.com",
       "https://cloudcode-pa.googleapis.com" >>

CAPACITY_RETRY_COUNT == 3

CAPACITY_RETRY_BASE_DELAY_MS == 3000

\* what the backend does with one request: an HTTP response (its status, the
\* inlineData of the image parts of its SSE body in order, "" being a part with
\* empty data, and whether the body holds an error event ahead of its end),
\* the abort of the request by the timeout, or a transport error
HttpResponse(status, images, sseError) ==
    [kind |-> "http", status |-> status, images |-> images, sseError |-> sseError]

Responses ==
    { HttpResponse(200, images, FALSE) :
        images \in { << >>, <<"">>, <<"imageA">>, <<"", "imageB", "imageA">> } }
    \cup { HttpResponse(200, <<"imageA">>, TRUE) }
    \cup { HttpResponse(status, << >>, FALSE) : status \in {401, 429, 500, 503} }
    \cup { [kind |-> "abort", status |-> 0, images |-> << >>, sseError |-> FALSE],
           [kind |-> "error", status |-> 0, images |-> << >>, sseError |-> FALSE] }

NoData == ""

\* an ImageGenerationResult; absent optional fields: NoData, << >>, FALSE
Result(success, imageData, images, error, isRateLimited, isCapacityError, quota) ==
    [success |-> success, imageData |-> imageData, images |-> images, error |-> error,
     isRateLimited |-> isRateLimited, isCapacityError |-> isCapacityError,
     quota |-> quota]

Failure(error, isRateLimited, isCapacityError) ==
    Result(FALSE, NoData, << >>, error, isRateLimited, isCapacityError, FALSE)

\* parseSSEResponse(text): an error event ends the parse; else the first image
\* found becomes imageData and all images are kept
parseSSEResponse(images, sseError) ==
    LET allImages == SelectSeq(images, LAMBDA data : data # "")
    IN  IF sseError THEN Failure("SSE error", FALSE, FALSE)
        ELSE IF Len(allImages) = 0 THEN Failure("No image in response", FALSE, FALSE)
        ELSE Result(TRUE, allImages[1], allImages, "", FALSE, FALSE, FALSE)

\* `HTTP ${response.status}: ${errorText}`
HttpError(status) ==
    CASE status = 401 -> "HTTP 401"
      [] status = 429 -> "HTTP 429"
      [] status = 500 -> "HTTP 500"
      [] status = 503 -> "HTTP 503"
      [] OTHER -> "HTTP"

\* response.ok
Ok(status) == status >= 200 /\ status <= 299

\* attemptGeneration(baseUrl, accessToken, requestBody): { result, status }
attemptGeneration(response) ==
    IF response.kind = "http"
    THEN IF ~Ok(response.status)
         THEN [status |-> response.status,
               result |-> Failure(HttpError(response.status),
                                  response.status = 429, response.status = 503)]
         ELSE [status |-> 200,
               result |-> parseSSEResponse(response.images, response.sseError)]
    ELSE IF response.kind = "abort"
    THEN [status |-> 0, result |-> Failure("Timeout after 120s", FALSE, FALSE)]
    ELSE [status |-> 0, result |-> Failure("network error", FALSE, FALSE)]

\* mutant: a 429 is retried on the same endpoint like a 503
Branch_RetryOn429(attempt) ==
    IF attempt.result.success /\ attempt.result.imageData # NoData THEN "success"
    ELSE IF attempt.status = 503 \/ attempt.status = 429 THEN "continue"
    ELSE "return"

\* mutant: any failure but a 503 moves on to the next endpoint
Branch_SkipOnAnyError(attempt) ==
    IF attempt.result.success /\ attempt.result.imageData # NoData THEN "success"
    ELSE IF attempt.status = 503 THEN "continue"
    ELSE "break"

\* mutant: the success test is missing, a success is taken for exhausted capacity
Branch_SuccessUnnoticed(attempt) ==
    IF attempt.status = 503 \/ attempt.result.success THEN "continue"
    ELSE IF attempt.status = 429 THEN "break"
    ELSE "return"

\* the branch the loop body takes on an attempt's outcome
Branch(attempt) ==
    IF attempt.result.success /\ attempt.result.imageData # NoData THEN "success"
    ELSE IF attempt.status = 503 THEN "continue"
    ELSE IF attempt.status = 429 THEN "break"
    ELSE "return"

\* mutant: one retry more
RetryLoopRuns_OneMore(r) == r <= CAPACITY_RETRY_COUNT + 1

\* mutant: one retry less
RetryLoopRuns_OneLess(r) == r < CAPACITY_RETRY_COUNT

\* for (let retry = 0; retry <= CAPACITY_RETRY_COUNT; retry++)
RetryLoopRuns(r) == r <= CAPACITY_RETRY_COUNT

RECURSIVE Pow2(_)
Pow2(n) == IF n = 0 THEN 1 ELSE 2 * Pow2(n - 1)

\* mutant: the backoff grows linearly
Delay_Linear(r) == CAPACITY_RETRY_BASE_DELAY_MS * r

\* CAPACITY_RETRY_BASE_DELAY_MS * Math.pow(2, retry - 1)
Delay(r) == CAPACITY_RETRY_BASE_DELAY_MS * Pow2(r - 1)

\* mutant: allCapacity is cleared by nothing but a returned attempt
AllCapacityAfter_NeverCleared(branch, current) ==
    IF branch \in {"break", "continue", "success"} THEN current ELSE FALSE

\* mutant: a 429 leaves allCapacity set
AllCapacityAfter_KeptOn429(branch, current) ==
    IF branch = "continue" \/ branch = "break" THEN current ELSE FALSE

\* mutant: allRateLimited is cleared by nothing but a returned attempt
AllRateLimitedAfter_NeverCleared(branch, current) ==
    IF branch \in {"break", "continue", "success"} THEN current ELSE FALSE

\* mutant: a 503 leaves allRateLimited set
AllRateLimitedAfter_KeptOn503(branch, current) ==
    IF branch = "break" \/ branch = "continue" THEN current ELSE FALSE

\* allRateLimited survives a 429 only, allCapacity a 503 only
AllRateLimitedAfter(branch, current) == IF branch = "break" THEN current ELSE FALSE

AllCapacityAfter(branch, current) == IF branch = "continue" THEN current ELSE FALSE

\* x || fallback on a possibly empty error text
OrElse(x, fallback) == IF x = "" THEN fallback ELSE x

\* no generateImage call is under way
NoGeneration ==
    /\ pc = "idle"
    /\ baseUrl = 0
    /\ retry = 0
    /\ allRateLimited = TRUE
    /\ allCapacity = TRUE
    /\ lastError = ""
    /\ result = Failure("", FALSE, FALSE)
    /\ trace = << >>

GenerateInit ==
    /\ config = << >>
    /\ clock = 0
    /\ call = [op |-> "none", excludeEmails |-> {}, email |-> <<"unknown", 0, "@test.com">>,
               now |-> 0, result |-> 0]
    /\ limitedAt = << >>
    /\ rr = << >>
    /\ pc = "refreshAccessToken"
    /\ baseUrl = 0
    /\ retry = 0
    /\ allRateLimited = TRUE
    /\ allCapacity = TRUE
    /\ lastError = ""
    /\ result = Failure("", FALSE, FALSE)
    /\ trace = << >>
    /\ NoExecution

\* `return r`, or the catch block returning its failure
Return(r) ==
    /\ pc' = "done"
    /\ result' = r

\* mutant: a failed token exchange is reported as a rate limit
RefreshAccessToken_AsRateLimit ==
    /\ pc = "refreshAccessToken"
    /\ \/ pc' = "projectId" /\ UNCHANGED result
       \/ Return(Failure("Token refresh failed", TRUE, FALSE))
    /\ UNCHANGED <<baseUrl, retry, allRateLimited, allCapacity, lastError, trace>>
    /\ UNCHANGED <<schedVars, execVars, req, sessions>>

\* const accessToken = await refreshAccessToken(account.refreshToken)
RefreshAccessToken ==
    /\ pc = "refreshAccessToken"
    /\ \/ pc' = "projectId" /\ UNCHANGED result
       \/ Return(Failure("Token refresh failed", FALSE, FALSE))
    /\ UNCHANGED <<baseUrl, retry, allRateLimited, allCapacity, lastError, trace>>
    /\ UNCHANGED <<schedVars, execVars, req, sessions>>

\* account.projectId || account.managedProjectId, else loadCodeAssist
ResolveProjectId ==
    /\ pc = "projectId"
    /\ \/ pc' = "fetchAvailableModels" /\ UNCHANGED result
       \/ Return(Failure("Could not determine project ID", FALSE, FALSE))
       \/ Return(Failure("loadCodeAssist failed", FALSE, FALSE))
    /\ UNCHANGED <<baseUrl, retry, allRateLimited, allCapacity, lastError, trace>>
    /\ UNCHANGED <<schedVars, execVars, req, sessions>>

\* const models = await fetchAvailableModels(accessToken, projectId); then the
\* request body is built and the endpoint loop is entered
FetchAvailableModels ==
    /\ pc = "fetchAvailableModels"
    /\ \/ /\ pc' = "attempt"
          /\ baseUrl' = 1
          /\ retry' = 0
          /\ allRateLimited' = TRUE
          /\ allCapacity' = TRUE
          /\ lastError' = ""
          /\ UNCHANGED result
       \/ /\ Return(Failure("fetchAvailableModels failed", FALSE, FALSE))
          /\ UNCHANGED <<baseUrl, retry, allRateLimited, allCapacity, lastError>>
    /\ UNCHANGED trace
    /\ UNCHANGED <<schedVars, execVars, req, sessions>>

\* if (retry > 0) await sleep(delay)
Sleep ==
    /\ pc = "sleep"
    /\ trace' = Append(trace, [kind |-> "sleep", url |-> baseUrl, retry |-> retry,
                               delay |-> Delay(retry),
                               response |-> HttpResponse(0, << >>, FALSE)])
    /\ pc' = "attempt"
    /\ UNCHANGED <<baseUrl, retry, allRateLimited, allCapacity, lastError, result>>
    /\ UNCHANGED <<schedVars, execVars, req, sessions>>

\* the loops' next iteration after the body ended by `continue` (same endpoint,
\* retry + 1) or `break` (next endpoint); past the last endpoint the aggregate
\* failure is returned
Iterate(url, r, rateLimited, capacity, error) ==
    IF url <= Len(CLOUDCODE_FALLBACK_URLS) /\ RetryLoopRuns(r)
    THEN /\ baseUrl' = url
         /\ retry' = r
         /\ pc' = IF r > 0 THEN "sleep" ELSE "attempt"
         /\ UNCHANGED result
    ELSE IF url < Len(CLOUDCODE_FALLBACK_URLS)
    THEN /\ baseUrl' = url + 1
         /\ retry' = 0
         /\ pc' = "attempt"
         /\ UNCHANGED result
    ELSE /\ baseUrl' = url
         /\ retry' = r
         /\ Return(Failure(OrElse(error, "All endpoints failed"), rateLimited, capacity))

\* const { result, status } = await attemptGeneration(baseUrl, accessToken,
\* requestBody), and the branch taken on it
Attempt ==
    /\ pc = "attempt"
    /\ \E response \in Responses :
        LET attempt == attemptGeneration(response)
            branch == Branch(attempt)
            rateLimited == AllRateLimitedAfter(branch, allRateLimited)
            capacity == AllCapacityAfter(branch, allCapacity)
        IN  /\ trace' = Append(trace, [kind |-> "attempt", url |-> baseUrl,
                                       retry |-> retry, delay |-> 0,
                                       response |-> response])
            /\ allRateLimited' = rateLimited
            /\ allCapacity' = capacity
            /\ CASE branch = "success" ->
                    /\ pc' = "getImageModelQuota"
                    /\ result' = attempt.result
                    /\ UNCHANGED <<baseUrl, retry, lastError>>
                 [] branch = "continue" ->
                    /\ lastError' = OrElse(attempt.result.error, "No capacity")
                    /\ Iterate(baseUrl, retry + 1, rateLimited, capacity, lastError')
                 [] branch = "break" ->
                    /\ lastError' = OrElse(attempt.result.error, "Rate limited")
                    /\ Iterate(baseUrl + 1, 0, rateLimited, capacity, lastError')
                 [] OTHER ->
                    /\ Return(attempt.result)
                    /\ UNCHANGED <<baseUrl, retry, lastError>>
    /\ UNCHANGED <<schedVars, execVars, req, sessions>>

\* mutant: a failed quota fetch is not caught and fails the call
GetImageModelQuota_Uncaught ==
    /\ pc = "getImageModelQuota"
    /\ \/ Return([result EXCEPT !.quota = TRUE])
       \/ Return(Failure("Token refresh failed", FALSE, FALSE))
    /\ UNCHANGED <<baseUrl, retry, allRateLimited, allCapacity, lastError, trace>>
    /\ UNCHANGED <<schedVars, execVars, req, sessions>>

\* const quota = await getImageModelQuota(account).catch(() => null);
\* return { ...result, quota }
GetImageModelQuota ==
    /\ pc = "getImageModelQuota"
    /\ \E quota \in BOOLEAN : Return([result EXCEPT !.quota = quota])
    /\ UNCHANGED <<baseUrl, retry, allRateLimited, allCapacity, lastError, trace>>
    /\ UNCHANGED <<schedVars, execVars, req, sessions>>

GenerateNext ==
    \/ RefreshAccessToken
    \/ ResolveProjectId
    \/ FetchAvailableModels
    \/ Sleep
    \/ Attempt
    \/ GetImageModelQuota

SpecGenerate == GenerateInit /\ [][GenerateNext]_vars

-----------------------------------------------------------------------------
(* api.ts: one attemptGeneration call in time *)

IMAGE_GENERATION_TIMEOUT_MS == 120000

\* the clock of an attempt advances by quarters of the timeout
TimeStep == IMAGE_GENERATION_TIMEOUT_MS \div 4

\* how long an attempt is watched, in steps
MaxWait == 6

\* the HTTP responses the backend may start to deliver
HttpResponses == { r \in Responses : r.kind = "http" }

AttemptInit ==
    /\ config = << >>
    /\ clock = 0
    /\ call = [op |-> "none", excludeEmails |-> {}, email |-> <<"unknown", 0, "@test.com">>,
               now |-> 0, result |-> 0]
    /\ limitedAt = << >>
    /\ rr = << >>
    /\ NoGeneration
    /\ store = << >>
    /\ exec = << >>
    /\ history = << >>
    /\ sessions = {}
    /\ req = [phase |-> "fetch", timer |-> "armed", elapsed |-> 0,
              response |-> HttpResponse(0, << >>, FALSE),
              outcome |-> [status |-> 0, result |-> Failure("", FALSE, FALSE)]]

\* the timer set by setTimeout(() => controller.abort(), ...) is due
TimerDue == req.timer = "armed" /\ req.elapsed >= IMAGE_GENERATION_TIMEOUT_MS

\* time passes while the attempt is suspended; a due timer runs first
Elapse ==
    /\ req.phase # "done"
    /\ ~TimerDue
    /\ req.elapsed < MaxWait * TimeStep
    /\ req' = [req EXCEPT !.elapsed = @ + TimeStep]
    /\ UNCHANGED <<schedVars, genVars, execVars, sessions>>

\* the timer fires: controller.abort() rejects the pending fetch with an
\* AbortError, the catch block returns the timeout
TimerFires ==
    /\ TimerDue
    /\ req.phase = "fetch"
    /\ req' = [req EXCEPT !.timer = "fired", !.phase = "done",
                          !.outcome = attemptGeneration(
                              [kind |-> "abort", status |-> 0, images |-> << >>,
                               sseError |-> FALSE])]
    /\ UNCHANGED <<schedVars, genVars, execVars, sessions>>

\* await fetch(...) resolves with the response head; clearTimeout(timeout);
\* the body is read next, by either response.text()
FetchResolves ==
    /\ req.phase = "fetch"
    /\ \E response \in HttpResponses :
        req' = [req EXCEPT !.timer = "cleared", !.phase = "text",
                           !.response = response]
    /\ UNCHANGED <<schedVars, genVars, execVars, sessions>>

\* await fetch(...) rejects for another reason than the abort
FetchRejects ==
    /\ req.phase = "fetch"
    /\ req' = [req EXCEPT !.timer = "cleared", !.phase = "done",
                          !.outcome = attemptGeneration(
                              [kind |-> "error", status |-> 0, images |-> << >>,
                               sseError |-> FALSE])]
    /\ UNCHANGED <<schedVars, genVars, execVars, sessions>>

\* await response.text() resolves with the complete body
TextResolves ==
    /\ req.phase = "text"
    /\ req' = [req EXCEPT !.phase = "done", !.outcome = attemptGeneration(req.response)]
    /\ UNCHANGED <<schedVars, genVars, execVars, sessions>>

\* await response.text() rejects, the connection being lost
TextRejects ==
    /\ req.phase = "text"
    /\ req' = [req EXCEPT !.phase = "done",
                          !.outcome = attemptGeneration(
                              [kind |-> "error", status |-> 0, images |-> << >>,
                               sseError |-> FALSE])]
    /\ UNCHANGED <<schedVars, genVars, execVars, sessions>>

AttemptNext ==
    \/ Elapse
    \/ TimerFires
    \/ FetchResolves
    \/ FetchRejects
    \/ TextResolves
    \/ TextRejects

SpecAttempt == AttemptInit /\ [][AttemptNext]_vars

-----------------------------------------------------------------------------
(* Calls on the accounts module *)

NoCall == [op |-> "none", excludeEmails |-> {}, email |-> UNKNOWN_EMAIL, now |-> 0,
           result |-> Null]

\* const account = selectAccount(config, excludeEmails, now)
SelectAccount ==
    \E excludeEmails \in SUBSET EmailsOf(config), now \in Time :
        /\ call' = [op |-> "selectAccount", excludeEmails |-> excludeEmails,
                    email |-> UNKNOWN_EMAIL, now |-> now,
                    result |-> selectAccount(config, excludeEmails, now, clock)]
        /\ UNCHANGED <<config, clock, limitedAt, rr>>
        /\ UNCHANGED <<genVars, execVars, req, sessions>>

\* markRateLimited(config, email, now)
MarkRateLimited ==
    \E email \in EmailsOf(config) \cup {UNKNOWN_EMAIL}, now \in Time :
        /\ config' = markRateLimited(config, email, now)
        /\ limitedAt' = [i \in DOMAIN config |->
                            IF i = Find(config, email) THEN now ELSE limitedAt[i]]
        /\ call' = [op |-> "markRateLimited", excludeEmails |-> {}, email |-> email,
                    now |-> now, result |-> Null]
        /\ UNCHANGED <<clock, rr>>
        /\ UNCHANGED <<genVars, execVars, req, sessions>>

-----------------------------------------------------------------------------
(* Selection on any stored configuration: SpecSelect *)

\* the accounts file may hold any runtime state left by earlier calls
AccountStates(e) ==
    { Account(e, used, limited, quota) :
        used \in {Undefined} \cup Recorded,
        limited \in {Undefined} \cup (Time \ {0}),
        quota \in {NoQuota} \cup
                  { Quota(f, Undefined, u) : f \in Fractions, u \in Recorded } }

\* stored configurations of no, one and two accounts
Configs ==
    { << >> }
    \cup { <<a>> : a \in AccountStates(Email(1)) }
    \cup { <<a, b>> : a \in AccountStates(Email(1)), b \in AccountStates(Email(2)) }

SelectInit ==
    /\ NoGeneration
    /\ NoExecution
    /\ config \in Configs
    /\ clock \in Time
    /\ call = NoCall
    /\ limitedAt = [i \in DOMAIN config |-> Undefined]
    /\ rr = << >>

SelectNext == call = NoCall /\ SelectAccount

SpecSelect == SelectInit /\ [][SelectNext]_vars

-----------------------------------------------------------------------------
(* Cooldowns: markRateLimited and later selections, SpecCooldown *)

CooldownInit ==
    /\ NoGeneration
    /\ NoExecution
    /\ \E count \in 1..MaxAccounts : config = makeConfig(count)
    /\ clock = 0
    /\ call = NoCall
    /\ limitedAt = [i \in DOMAIN config |-> Undefined]
    /\ rr = << >>

CooldownNext == MarkRateLimited \/ SelectAccount

SpecCooldown == CooldownInit /\ [][CooldownNext]_vars

-----------------------------------------------------------------------------
(* Cycles of selectAccount and markUsed on fresh accounts: SpecRoundRobin *)

RoundRobinInit ==
    /\ NoGeneration
    /\ NoExecution
    /\ \E count \in 1..MaxAccounts : config = makeConfig(count)
    /\ clock = 0
    /\ call = NoCall
    /\ limitedAt = [i \in DOMAIN config |-> Undefined]
    /\ rr = << >>

\* const next = selectAccount(config)
CycleSelect ==
    /\ call.op # "selectAccount"
    /\ call' = [op |-> "selectAccount", excludeEmails |-> {}, email |-> UNKNOWN_EMAIL,
                now |-> clock, result |-> selectAccount(config, {}, clock, clock)]
    /\ UNCHANGED <<config, clock, limitedAt, rr>>
    /\ UNCHANGED <<genVars, execVars, req, sessions>>

\* markUsed(config, next.email, stamp), the stamps strictly increasing
CycleMarkUsed ==
    /\ call.op = "selectAccount" /\ call.result # Null
    /\ \E stamp \in 0..MaxStamp :
        /\ \A k \in DOMAIN rr : rr[k].at < stamp
        /\ config' = markUsed(config, config[call.result].email, stamp)
        /\ rr' = Append(rr, [account |-> call.result, at |-> stamp])
        /\ call' = [op |-> "markUsed", excludeEmails |-> {},
                    email |-> config[call.result].email, now |-> stamp, result |-> Null]
    /\ UNCHANGED <<clock, limitedAt>>
    /\ UNCHANGED <<genVars, execVars, req, sessions>>

RoundRobinNext == CycleSelect \/ CycleMarkUsed

SpecRoundRobin == RoundRobinInit /\ [][RoundRobinNext]_vars

-----------------------------------------------------------------------------
(* The recording mutators called in any order: SpecRecord *)

\* mutator calls made in a row
MaxRecordings == 3

\* resetTime?: string, absent or an ISO date
ResetTimes == { Undefined, 20260301 }

\* the remainingFraction values observed, in hundredths
ObservedFractions == { 0, SOFT_QUOTA_THRESHOLD + 1 }

\* history: one call of a mutator with its arguments; for updateCachedQuota
\* `now` is what Date.now() returned
Recording(op, email, now, fraction, resetTime) ==
    [op |-> op, email |-> email, now |-> now, fraction |-> fraction,
     resetTime |-> resetTime]

RecordInit ==
    /\ NoGeneration
    /\ store = << >>
    /\ exec = << >>
    /\ req = << >>
    /\ sessions = {}
    /\ history = << >>
    /\ \E count \in 1..2 : config = makeConfig(count)
    /\ clock = 0
    /\ call = NoCall
    /\ limitedAt = [i \in DOMAIN config |-> Undefined]
    /\ rr = << >>

\* markUsed(config, email, now)
ApplyMarkUsed ==
    /\ Len(history) < MaxRecordings
    /\ \E email \in EmailsOf(config) \cup {UNKNOWN_EMAIL}, now \in Recorded :
        /\ config' = markUsed(config, email, now)
        /\ history' = Append(history, Recording("markUsed", email, now, 0, Undefined))
        /\ call' = [op |-> "markUsed", excludeEmails |-> {}, email |-> email,
                    now |-> now, result |-> Null]
    /\ UNCHANGED <<clock, limitedAt, rr>>
    /\ UNCHANGED <<genVars, store, exec, req, sessions>>

\* markRateLimited(config, email, now)
ApplyMarkRateLimited ==
    /\ Len(history) < MaxRecordings
    /\ \E email \in EmailsOf(config) \cup {UNKNOWN_EMAIL}, now \in Time :
        /\ config' = markRateLimited(config, email, now)
        /\ limitedAt' = [i \in DOMAIN config |->
                            IF i = Find(config, email) THEN now ELSE limitedAt[i]]
        /\ history' = Append(history,
                             Recording("markRateLimited", email, now, 0, Undefined))
        /\ call' = [op |-> "markRateLimited", excludeEmails |-> {}, email |-> email,
                    now |-> now, result |-> Null]
    /\ UNCHANGED <<clock, rr>>
    /\ UNCHANGED <<genVars, store, exec, req, sessions>>

\* updateCachedQuota(config, email, remainingFraction, resetTime), called one
\* freshness window after the call before it
ApplyUpdateCachedQuota ==
    /\ Len(history) < MaxRecordings
    /\ clock' = clock + Tick
    /\ \E email \in EmailsOf(config) \cup {UNKNOWN_EMAIL},
          remainingFraction \in ObservedFractions, resetTime \in ResetTimes :
        /\ config' = updateCachedQuota(config, email, remainingFraction, resetTime,
                                       clock')
        /\ history' = Append(history,
                             Recording("updateCachedQuota", email, clock',
                                       remainingFraction, resetTime))
        /\ call' = [op |-> "updateCachedQuota", excludeEmails |-> {}, email |-> email,
                    now |-> clock', result |-> Null]
    /\ UNCHANGED <<limitedAt, rr>>
    /\ UNCHANGED <<genVars, store, exec, req, sessions>>

RecordNext == ApplyMarkUsed \/ ApplyMarkRateLimited \/ ApplyUpdateCachedQuota

SpecRecord == RecordInit /\ [][RecordNext]_vars

-----------------------------------------------------------------------------
(* index.ts: generate_image.execute, the caller loop over the accounts *)

\* logical calls made on the tool
MaxCalls == 2

\* how far the clock runs, in half cooldowns
MaxElapsed == 4

Calls == 1..MaxCalls

HalfCooldown == RATE_LIMIT_COOLDOWN_MS \div 2

\* the time an await may take: next to none, or half a cooldown
Elapsed == { 0, HalfCooldown }

\* quota.remainingPercent values of a quota snapshot
RemainingPercents == { 5, 50 }

\* the results generateImage returns to the caller: a success with or without
\* a quota snapshot, the two aggregate failures, and failures without a flag
\* (a timeout, a failed token exchange)
GenerateResults ==
    { Result(TRUE, "imageA", <<"imageA">>, "", FALSE, FALSE, quota) : quota \in BOOLEAN }
    \cup { Failure("HTTP 429", TRUE, FALSE), Failure("HTTP 503", FALSE, TRUE) }
    \cup { Failure(error, FALSE, FALSE) :
             error \in { "Timeout after 120s", "Token refresh failed" } }

\* the locals of a call that has not started; `loaded` keeps, as history, the
\* accounts as loadAccounts read them
IdleCall ==
    [pc |-> "idle", config |-> << >>, loaded |-> << >>, excludeEmails |-> << >>,
     errors |-> << >>, attempt |-> 0, account |-> Null,
     result |-> Failure("", FALSE, FALSE), response |-> ""]

Range(seq) == { seq[i] : i \in DOMAIN seq }

\* const reason = result.isRateLimited ? ... : result.isCapacityError ? ... : ...
Reason(r) ==
    IF r.isRateLimited THEN "rate-limited"
    ELSE IF r.isCapacityError THEN "no capacity (503, retries exhausted)"
    ELSE OrElse(r.error, "unknown error")

\* mutant: every result is taken for a success
Generated_Always(r) == TRUE

\* if (result.success && result.imageData)
Generated(r) == r.success /\ r.imageData # NoData

\* mutant: a capacity failure starts a cooldown too
RateLimitClassified_OrCapacity(r) == r.isRateLimited \/ r.isCapacityError

\* if (result.isRateLimited)
RateLimitClassified(r) == r.isRateLimited

\* how the result handed back by generateImage is classified
Outcome(r) ==
    IF r.success THEN "success"
    ELSE IF r.isRateLimited THEN "rate-limited"
    ELSE IF r.isCapacityError THEN "capacity"
    ELSE r.error

\* mutant: the failed account is not put on the exclusion list
NextCredential_NotExcluded(e) ==
    [e EXCEPT !.errors = Append(@, [email |-> e.config[e.account].email,
                                    reason |-> Reason(e.result)]),
              !.attempt = @ + 1]

\* errors.push(...); excludeEmails.push(account.email); attempt++
NextCredential(e) ==
    [e EXCEPT !.errors = Append(@, [email |-> e.config[e.account].email,
                                    reason |-> Reason(e.result)]),
              !.excludeEmails = Append(@, e.config[e.account].email),
              !.attempt = @ + 1]

\* mutant: the loop gives up after the first account
LoopRuns_OnlyOnce(attempt) == attempt < 1

\* mutant: the loop is not bounded
LoopRuns_Unbounded(attempt) == TRUE

\* attempt < MAX_RETRIES
LoopRuns(attempt) == attempt < MAX_RETRIES

\* mutant: selecting an account reserves it by stamping its lastUsed
Iteration_Reserving(e, now) ==
    IF LoopRuns(e.attempt)
    THEN LET account == selectAccount(e.config, Range(e.excludeEmails), now, now)
         IN  IF account = Null
             THEN [e EXCEPT !.pc = "done", !.response = "failed", !.account = Null]
             ELSE [e EXCEPT !.pc = "generateImage", !.account = account,
                            !.config = markUsed(@, e.config[account].email, now)]
    ELSE [e EXCEPT !.pc = "done", !.response = "failed", !.account = Null]

\* the head of the loop: the next account is selected and handed to
\* generateImage, or the loop is left and the failure summary returned
Iteration(e, now) ==
    IF LoopRuns(e.attempt)
    THEN LET account == selectAccount(e.config, Range(e.excludeEmails), now, now)
         IN  IF account = Null
             THEN [e EXCEPT !.pc = "done", !.response = "failed", !.account = Null]
             ELSE [e EXCEPT !.pc = "generateImage", !.account = account]
    ELSE [e EXCEPT !.pc = "done", !.response = "failed", !.account = Null]

Event(c, kind, op, email, value, at) ==
    [call |-> c, kind |-> kind, op |-> op, email |-> email, value |-> value, at |-> at]

\* the history with the dispatch of e's account, when e stands at generateImage
Dispatched(h, c, e, now) ==
    IF e.pc = "generateImage"
    THEN Append(h, Event(c, "dispatch", "generateImage", e.config[e.account].email, 0, now))
    ELSE h

\* the event of call c having started and read the accounts file
Loaded(c, now) == Event(c, "load", "loadAccounts", UNKNOWN_EMAIL, 0, now)

\* time passes while a call is suspended
Passes(elapsed) ==
    /\ clock + elapsed <= MaxElapsed * HalfCooldown
    /\ clock' = clock + elapsed

\* const config = await loadAccounts(); without accounts the call returns its
\* error, else the loop is entered
LoadAccounts(c) ==
    /\ exec[c].pc = "idle"
    /\ \E elapsed \in Elapsed :
        /\ Passes(elapsed)
        /\ IF Len(store) = 0
           THEN /\ exec' = [exec EXCEPT ![c] = [@ EXCEPT !.pc = "done",
                                                         !.response = "noAccounts"]]
                /\ history' = Append(history, Loaded(c, clock'))
           ELSE LET e == Iteration([exec[c] EXCEPT !.config = store, !.loaded = store],
                                   clock')
                IN  /\ exec' = [exec EXCEPT ![c] = e]
                    /\ history' = Dispatched(Append(history, Loaded(c, clock')),
                                             c, e, clock')
    /\ UNCHANGED <<config, call, limitedAt, rr, genVars, store, req, sessions>>

\* const result = await generateImage(account, ...), and what the loop body
\* does with it up to its next await
Resume(c, results) ==
    /\ exec[c].pc = "generateImage"
    /\ \E r \in results, elapsed \in Elapsed :
        LET e == [exec[c] EXCEPT !.result = r]
            email == e.config[e.account].email
            returned == Append(history, Event(c, "return", Outcome(r), email, 0, clock'))
        IN  /\ Passes(elapsed)
            /\ IF Generated(r)
               THEN /\ exec' = [exec EXCEPT ![c] =
                                   [e EXCEPT !.config = markUsed(e.config, email, clock'),
                                             !.pc = "markAccountUsed"]]
                    /\ history' = Append(returned,
                                         Event(c, "apply", "markUsed", email, clock', clock'))
               ELSE IF RateLimitClassified(r)
               THEN /\ exec' = [exec EXCEPT ![c] =
                                   [e EXCEPT !.config = markRateLimited(e.config, email, clock'),
                                             !.pc = "markAccountRateLimited"]]
                    /\ history' = Append(returned,
                                         Event(c, "apply", "markRateLimited", email,
                                               clock' + RATE_LIMIT_COOLDOWN_MS, clock'))
               ELSE LET next == Iteration(NextCredential(e), clock')
                    IN  /\ exec' = [exec EXCEPT ![c] = next]
                        /\ history' = Dispatched(returned, c, next, clock')

\* the same, generateImage returning one of `results`
GenerateImageOf(c, results) ==
    /\ Resume(c, results)
    /\ UNCHANGED <<config, call, limitedAt, rr, genVars, store, req, sessions>>

GenerateImage(c) == GenerateImageOf(c, GenerateResults)

\* saveAccounts(config) fails: fs.mkdir or fs.writeFile rejects, nothing in
\* execute catches it
SaveAccountsThrows(c) ==
    /\ exec[c].pc \in { "markAccountUsed", "saveAccounts", "markAccountRateLimited" }
    /\ exec' = [exec EXCEPT ![c] = [@ EXCEPT !.pc = "thrown", !.response = "thrown"]]
    /\ UNCHANGED <<schedVars, genVars, store, history, req, sessions>>

\* markAccountUsed: its saveAccounts has written the file; with a quota in the
\* result the cache is updated and saved again, else the success is returned
MarkAccountUsed(c) ==
    /\ exec[c].pc = "markAccountUsed"
    /\ store' = exec[c].config
    /\ LET e == exec[c]
           email == e.config[e.account].email
       IN  IF e.result.quota
           THEN \E remainingPercent \in RemainingPercents :
                /\ exec' = [exec EXCEPT ![c] =
                               [e EXCEPT !.config = updateCachedQuota(e.config, email,
                                                       remainingPercent, Undefined, clock),
                                         !.pc = "saveAccounts"]]
                /\ history' = history
                       \o << Event(c, "persist", "markUsed", email,
                                   e.config[e.account].lastUsed, clock),
                             Event(c, "apply", "updateCachedQuota", email,
                                   remainingPercent, clock) >>
           ELSE /\ exec' = [exec EXCEPT ![c] = [e EXCEPT !.pc = "done",
                                                         !.response = "success"]]
                /\ history' = Append(history,
                                     Event(c, "persist", "markUsed", email,
                                           e.config[e.account].lastUsed, clock))
    /\ UNCHANGED <<schedVars, genVars, req, sessions>>

\* await saveAccounts(config) after updateCachedQuota, then the success
SaveAccounts(c) ==
    /\ exec[c].pc = "saveAccounts"
    /\ store' = exec[c].config
    /\ LET e == exec[c]
       IN  /\ exec' = [exec EXCEPT ![c] = [e EXCEPT !.pc = "done", !.response = "success"]]
           /\ history' = Append(history,
                  Event(c, "persist", "updateCachedQuota", e.config[e.account].email,
                        e.config[e.account].cachedImageQuota[1].remainingFraction, clock))
    /\ UNCHANGED <<schedVars, genVars, req, sessions>>

\* markAccountRateLimited: its saveAccounts has written the file; the loop
\* goes on with the next account
MarkAccountRateLimited(c) ==
    /\ exec[c].pc = "markAccountRateLimited"
    /\ store' = exec[c].config
    /\ LET e == exec[c]
           next == Iteration(NextCredential(e), clock)
       IN  /\ exec' = [exec EXCEPT ![c] = next]
           /\ history' = Dispatched(
                  Append(history,
                         Event(c, "persist", "markRateLimited", e.config[e.account].email,
                               e.config[e.account].rateLimitedUntil, clock)),
                  c, next, clock)
    /\ UNCHANGED <<schedVars, genVars, req, sessions>>

Ended(c) == exec[c].pc \in { "done", "thrown" }

\* accounts in the file when several logical calls are made
MaxStored == 2

\* no call has started, the file holds `count` accounts never used
ExecuteStart(counts, now) ==
    /\ config = << >>
    /\ clock = now
    /\ call = NoCall
    /\ limitedAt = << >>
    /\ rr = << >>
    /\ NoGeneration
    /\ \E count \in counts : store = makeConfig(count)
    /\ exec = [c \in Calls |-> IdleCall]
    /\ history = << >>
    /\ req = << >>
    /\ sessions = {}

Step(c) ==
    \/ GenerateImage(c)
    \/ SaveAccountsThrows(c)
    \/ MarkAccountUsed(c)
    \/ SaveAccounts(c)
    \/ MarkAccountRateLimited(c)

\* one logical call, on a file of up to one account more than the loop tries
ExecuteInit == ExecuteStart(0..(MaxAccounts + 1), 0)

ExecuteNext == LoadAccounts(1) \/ Step(1)

SpecExecute == ExecuteInit /\ [][ExecuteNext]_vars

\* a call that is under way is resumed
FairExecute == ExecuteInit /\ [][ExecuteNext]_vars /\ WF_vars(ExecuteNext)

\* logical calls made one after the other
LaterInit == ExecuteStart(1..MaxStored, 0)

LaterNext ==
    \E c \in Calls :
        \/ (\A earlier \in 1..(c - 1) : Ended(earlier)) /\ LoadAccounts(c)
        \/ Step(c)

SpecLater == LaterInit /\ [][LaterNext]_vars

\* logical calls that run concurrently, interleaved at their awaits, within a
\* span of time too short for the clock to advance
ConcurrentInit == ExecuteStart(1..MaxStored, MaxElapsed * HalfCooldown)

ConcurrentNext == \E c \in Calls : LoadAccounts(c) \/ Step(c)

SpecConcurrent == ConcurrentInit /\ [][ConcurrentNext]_vars

-----------------------------------------------------------------------------
(* One logical call with the generateImage calls it makes: SpecCall *)

CallInit ==
    /\ config = << >>
    /\ clock = 0
    /\ call = NoCall
    /\ limitedAt = << >>
    /\ rr = << >>
    /\ NoGeneration
    /\ \E count \in 1..2 : store = makeConfig(count)
    /\ exec = [c \in Calls |-> IdleCall]
    /\ history = << >>
    /\ req = << >>
    /\ sessions = {}

\* generateImage(account, ...) is entered for the account selected
EnterGenerateImage ==
    /\ exec[1].pc = "generateImage"
    /\ pc = "idle"
    /\ pc' = "refreshAccessToken"
    /\ UNCHANGED <<baseUrl, retry, allRateLimited, allCapacity, lastError, result, trace>>
    /\ UNCHANGED <<schedVars, execVars, req, sessions>>

\* generateImage has returned: the loop body takes its result
LeaveGenerateImage ==
    /\ pc = "done"
    /\ Resume(1, {result})
    /\ pc' = "idle"
    /\ baseUrl' = 0
    /\ retry' = 0
    /\ allRateLimited' = TRUE
    /\ allCapacity' = TRUE
    /\ lastError' = ""
    /\ result' = Failure("", FALSE, FALSE)
    /\ trace' = << >>
    /\ UNCHANGED <<config, call, limitedAt, rr, store, req, sessions>>

CallNext ==
    \/ LoadAccounts(1)
    \/ EnterGenerateImage
    \/ GenerateNext
    \/ LeaveGenerateImage
    \/ SaveAccountsThrows(1)
    \/ MarkAccountUsed(1)
    \/ SaveAccounts(1)
    \/ MarkAccountRateLimited(1)

SpecCall == CallInit /\ [][CallNext]_vars

-----------------------------------------------------------------------------
(* index.ts: the failure summary of generate_image.execute, SpecSummary *)

\* failures without a flag whose text is the backend's: an error event of the
\* SSE stream (`${code}: ${message}`) and the body of an HTTP 500
BackendTexts == { "429: rate-limited, retry later", "HTTP 500: no capacity available" }

SummaryResults ==
    GenerateResults \cup { Failure(error, FALSE, FALSE) : error \in BackendTexts }

\* String.prototype.includes, on the texts the model holds
Includes(text, phrase) ==
    \/ text = phrase
    \/ phrase = "no capacity" /\ text = "no capacity (503, retries exhausted)"
    \/ phrase = "no capacity" /\ text = "HTTP 500: no capacity available"
    \/ phrase = "rate-limited" /\ text = "429: rate-limited, retry later"

\* errors.some((e) => e.includes(phrase)), e being `${email}: ${reason}`; no
\* email of the model holds one of the phrases
Some(errors, phrase) ==
    \E k \in DOMAIN errors : Includes(errors[k].reason, phrase)

\* the message returned after the loop: the accounts tried or the notice that
\* none was, and the hints among the possible fixes
Summary(errors) ==
    [noAccounts |-> Len(errors) = 0,
     tried |-> errors,
     capacityHint |-> Some(errors, "no capacity"),
     rateLimitHint |-> Some(errors, "rate-limited")]

\* the accounts file as earlier calls may have left it: accounts never used,
\* some of them in a cooldown that ends one cooldown duration from now
SummaryInit ==
    /\ config = << >>
    /\ clock = 0
    /\ call = NoCall
    /\ limitedAt = << >>
    /\ rr = << >>
    /\ NoGeneration
    /\ \E count \in 1..MaxStored :
        \E limited \in [1..count -> {Undefined, RATE_LIMIT_COOLDOWN_MS}] :
            store = [i \in 1..count |->
                        Account(Email(i), Undefined, limited[i], NoQuota)]
    /\ exec = [c \in Calls |-> IdleCall]
    /\ history = << >>
    /\ req = << >>
    /\ sessions = {}

SummaryNext ==
    \/ LoadAccounts(1)
    \/ GenerateImageOf(1, SummaryResults)
    \/ SaveAccountsThrows(1)
    \/ MarkAccountUsed(1)
    \/ SaveAccounts(1)
    \/ MarkAccountRateLimited(1)

SpecSummary == SummaryInit /\ [][SummaryNext]_vars

-----------------------------------------------------------------------------
(* sessions.ts: the session files, SpecSessions *)

\* a session id is a string, here the sequence of its characters
SessionIds ==
    { <<"a">>, <<"b">>, <<"a", "/", "b">>, <<"a", "_", "b">>, <<"a", ":", "b">> }

\* the characters of the model that match [a-zA-Z0-9_-]
SafeChars == { "a", "b", "_", "-" }

\* sessionId.replace(/[^a-zA-Z0-9_-]/g, "_")
Sanitized(sessionId) ==
    [i \in DOMAIN sessionId |->
        IF sessionId[i] \in SafeChars THEN sessionId[i] ELSE "_"]

\* join(getSessionsDir(worktree), `${safeId}.json`): within one worktree the
\* path is told by safeId
getSessionPath(sessionId) == Sanitized(sessionId)

\* a turn of the dialogue
Turn(role) == [role |-> role]

\* the histories of the sessions that are saved
Histories == { << >>, << Turn("user"), Turn("model") >> }

\* a Session; createdAt and updatedAt are left out
Session(id, turns) == [id |-> id, history |-> turns]

\* createSession(sessionId)
createSession(sessionId) == Session(sessionId, << >>)

\* existsSync(path)
Exists(files, path) == \E f \in files : f.path = path

\* JSON.parse(await fs.readFile(path))
Content(files, path) == (CHOOSE f \in files : f.path = path).content

\* loadSession(sessionId, worktree): << >> for null, else the session read
loadSession(files, sessionId) ==
    IF ~Exists(files, getSessionPath(sessionId)) THEN << >>
    ELSE << Content(files, getSessionPath(sessionId)) >>

\* fs.writeFile(path, JSON.stringify(session)): the file is made or replaced
WriteFile(files, path, content) ==
    { f \in files : f.path # path } \cup { [path |-> path, content |-> content] }

\* saveSession(session, worktree)
saveSession(files, session) == WriteFile(files, getSessionPath(session.id), session)

\* deleteSession(sessionId, worktree): the files after fs.unlink(path)
deleteSession(files, sessionId) ==
    { f \in files : f.path # getSessionPath(sessionId) }

SessionsInit ==
    /\ config = << >>
    /\ clock = 0
    /\ call = NoCall
    /\ limitedAt = << >>
    /\ rr = << >>
    /\ NoGeneration
    /\ store = << >>
    /\ exec = << >>
    /\ history = << >>
    /\ req = << >>
    /\ sessions = {}

\* the call made last on the sessions module
SessionCall(op, id, loaded) ==
    [op |-> op, id |-> id, result |-> loaded]

\* await saveSession(session, worktree)
SaveSession ==
    /\ \E id \in SessionIds, turns \in Histories :
        /\ sessions' = saveSession(sessions, Session(id, turns))
        /\ call' = SessionCall("saveSession", id, << >>)
    /\ UNCHANGED <<config, clock, limitedAt, rr, genVars, execVars, req>>

\* await deleteSession(sessionId, worktree)
DeleteSession ==
    /\ \E id \in SessionIds :
        /\ sessions' = deleteSession(sessions, id)
        /\ call' = SessionCall("deleteSession", id, << >>)
    /\ UNCHANGED <<config, clock, limitedAt, rr, genVars, execVars, req>>

\* await loadSession(sessionId, worktree)
LoadSession ==
    /\ \E id \in SessionIds :
        call' = SessionCall("loadSession", id, loadSession(sessions, id))
    /\ UNCHANGED <<config, clock, limitedAt, rr, genVars, execVars, req, sessions>>

SessionsNext == SaveSession \/ DeleteSession \/ LoadSession

SpecSessions == SessionsInit /\ [][SessionsNext]_vars

-----------------------------------------------------------------------------
(* index.ts: the turns generate_image.execute saves in a session, SpecTurns *)

\* a stored history of this many turns gets no further call
MaxTurns == 4

\* a part of a candidate's content: inlineData.data and text ("" when absent;
\* every inlineData has an image/ mimeType) and the thought mark
Part(data, text, thought) == [data |-> data, text |-> text, thought |-> thought]

\* response.candidates of one data event of the SSE stream, each candidate
\* being the parts of its content: none, an image, a text, an image marked as
\* thought, a candidate without parts (the closing chunk with finishReason)
CandidateLists ==
    { << >>,
      << << Part("imageA", "", FALSE) >> >>,
      << << Part("", "caption", FALSE) >> >>,
      << << Part("imageA", "", TRUE) >> >>,
      << << >> >> }

\* the data events of one response body
Streams ==
    { << candidates >> : candidates \in CandidateLists }
    \cup { << first, second >> : first \in CandidateLists, second \in CandidateLists }

RECURSIVE Flatten(_)
Flatten(seqs) == IF Len(seqs) = 0 THEN << >> ELSE Head(seqs) \o Flatten(Tail(seqs))

\* for (const candidate of candidates) for (const part of parts)
PartsOf(candidates) == Flatten(candidates)

\* the inlineData of the parts of all events, as parseSSEResponse walks them
ImagesOf(events) ==
    LET parts == Flatten([k \in DOMAIN events |-> PartsOf(events[k])])
    IN  [k \in DOMAIN parts |-> parts[k].data]

\* lastCandidates: the candidates of the last event that has some; << >> for
\* undefined
lastCandidates(events) ==
    LET some == { k \in DOMAIN events : Len(events[k]) > 0 }
    IN  IF some = {} THEN << >>
        ELSE events[CHOOSE k \in some : \A j \in some : j <= k]

\* buildModelResponseContent(candidates): the parts kept, << >> for null
buildModelResponseContent(candidates) ==
    IF Len(candidates) = 0 THEN << >>
    ELSE SelectSeq(PartsOf(candidates),
                   LAMBDA part : ~part.thought /\ (part.data # "" \/ part.text # ""))

\* addUserMessage(session, parts); the parts are not kept in the model
addUserMessage(session) == [session EXCEPT !.history = Append(@, Turn("user"))]

\* addModelMessage(session, parts)
addModelMessage(session) == [session EXCEPT !.history = Append(@, Turn("model"))]

getSessionHistory(session) == session.history

\* (await loadSession(session_id, ctx.directory)) ?? createSession(session_id)
LoadOrCreate(files, sessionId) ==
    IF loadSession(files, sessionId) = << >> THEN createSession(sessionId)
    ELSE loadSession(files, sessionId)[1]

\* if (session_id) { ... }: the session files after the update of a success
UpdateSession(files, sessionId, candidates) ==
    LET session == addUserMessage(LoadOrCreate(files, sessionId))
        modelParts == buildModelResponseContent(candidates)
    IN  saveSession(files,
                    IF Len(candidates) > 0 /\ Len(modelParts) > 0
                    THEN addModelMessage(session)
                    ELSE session)

\* the session ids of the calls, no two sharing a file
TurnIds == { <<"a">>, <<"b">> }

\* the call made last, with the history stored before it
TurnCall(id, success, before) ==
    [op |-> "generate_image", id |-> id, result |-> success, before |-> before]

\* the result of the attempt that answered with these events
StreamResult(events) == parseSSEResponse(ImagesOf(events), FALSE)

\* generate_image with a session_id whose generateImage call succeeded
GenerateInSession ==
    /\ \E id \in TurnIds, events \in Streams :
        LET before == getSessionHistory(LoadOrCreate(sessions, id))
        IN  /\ Len(before) < MaxTurns
            /\ Generated(StreamResult(events))
            /\ sessions' = UpdateSession(sessions, id, lastCandidates(events))
            /\ call' = TurnCall(id, TRUE, before)
    /\ UNCHANGED <<config, clock, limitedAt, rr, genVars, execVars, req>>

\* generate_image with a session_id all of whose generateImage calls failed
FailInSession ==
    /\ \E id \in TurnIds, events \in Streams :
        /\ ~Generated(StreamResult(events))
        /\ call' = TurnCall(id, FALSE, getSessionHistory(LoadOrCreate(sessions, id)))
    /\ UNCHANGED <<config, clock, limitedAt, rr, genVars, execVars, req, sessions>>

TurnsNext == GenerateInSession \/ FailInSession

SpecTurns == SessionsInit /\ [][TurnsNext]_vars

-----------------------------------------------------------------------------
(* Properties of selectAccount *)

Selected == call.op = "selectAccount"

\* the account's cooldown is active at the reference time
CooldownActive(a, now) == a.rateLimitedUntil # Undefined /\ a.rateLimitedUntil > now

\* C1: selectAccount returns null if and only if every account is in the
\* exclusion list or has an active cooldown (so never merely because the
\* remaining accounts are soft-quota-exceeded, and always for an empty set)
C1_NullIffAllExcludedOrCooling ==
    Selected =>
        (call.result = Null <=>
            \A i \in DOMAIN config :
                \/ config[i].email \in call.excludeEmails
                \/ CooldownActive(config[i], call.now))

\* null for two accounts, one excluded and the other in its cooldown
C1_Witness ==
    /\ Selected /\ call.result = Null /\ Len(config) = 2
    /\ config[1].email \in call.excludeEmails
    /\ ~CooldownActive(config[1], call.now)
    /\ config[2].email \notin call.excludeEmails
    /\ CooldownActive(config[2], call.now)

\* the premise of C2: accounts, no exclusions, no active cooldown
C2_Premise ==
    /\ Selected /\ config # << >> /\ call.excludeEmails = {}
    /\ \A i \in DOMAIN config : ~CooldownActive(config[i], call.now)

\* the first account, in config order, of the smallest key among `among`
FirstLeast(among, Key(_)) ==
    CHOOSE i \in among :
        \A j \in among : Key(i) < Key(j) \/ (Key(i) = Key(j) /\ i <= j)

\* an absent lastUsed is smaller than every recorded value (none is negative)
C2_AbsentBelowAll(i) == IF config[i].lastUsed = Undefined THEN -1 ELSE config[i].lastUsed

\* an absent lastUsed counts as a recorded 0
C2_AbsentAsZero(i) == IF config[i].lastUsed = Undefined THEN 0 ELSE config[i].lastUsed

C2_Headroom ==
    { i \in DOMAIN config :
        \/ config[i].cachedImageQuota = NoQuota
        \/ clock - config[i].cachedImageQuota[1].updatedAt > QUOTA_CACHE_TTL_MS
        \/ config[i].cachedImageQuota[1].remainingFraction > SOFT_QUOTA_THRESHOLD }

C2_PreferredPool == IF C2_Headroom # {} THEN C2_Headroom ELSE DOMAIN config

C3_NeverReturnsExcluded ==
    Selected /\ call.result # Null =>
        config[call.result].email \notin call.excludeEmails

\* the account that would be returned without exclusions is excluded, and
\* another account is returned
C3_Witness ==
    /\ Selected /\ call.result # Null
    /\ selectAccount(config, {}, call.now, clock) # Null
    /\ selectAccount(config, {}, call.now, clock) # call.result
    /\ config[selectAccount(config, {}, call.now, clock)].email \in call.excludeEmails

\* the accounts the selection may return: not excluded, no active cooldown
Eligible ==
    { i \in DOMAIN config :
        /\ config[i].email \notin call.excludeEmails
        /\ ~CooldownActive(config[i], call.now) }

\* the pool the selection is made from: the eligible accounts with headroom
\* if there is one, else all eligible accounts
ChosenPool ==
    IF Eligible \cap C2_Headroom # {} THEN Eligible \cap C2_Headroom ELSE Eligible

NeverUsed(i) == config[i].lastUsed = Undefined

C20_LastResort ==
    (Selected /\ Eligible # {} /\ Eligible \cap C2_Headroom = {}) =>
        /\ call.result # Null
        /\ call.result = FirstLeast(Eligible, C2_AbsentAsZero)

\* two soft-exceeded accounts, the second one used longer ago is returned
C20_Witness ==
    /\ Selected /\ Len(config) = 2 /\ Eligible = {1, 2} /\ C2_Headroom = {}
    /\ config[1].lastUsed = Tick /\ config[2].lastUsed = 0
    /\ call.result = 2

-----------------------------------------------------------------------------
(* Properties of the soft quota *)

\* the selection is made at the reference time: now is Date.now(), as in
\* every call of index.ts
AtReferenceTime == Selected /\ call.now = clock

HasQuota(i) == config[i].cachedImageQuota # NoQuota

QuotaAge(i) == clock - config[i].cachedImageQuota[1].updatedAt

Fraction(i) == config[i].cachedImageQuota[1].remainingFraction

FreshQuota(i) == HasQuota(i) /\ QuotaAge(i) <= QUOTA_CACHE_TTL_MS

StaleQuota(i) == HasQuota(i) /\ QuotaAge(i) > QUOTA_CACHE_TTL_MS

AtThreshold(i) == FreshQuota(i) /\ Fraction(i) = SOFT_QUOTA_THRESHOLD

AboveThreshold(i) == FreshQuota(i) /\ Fraction(i) > SOFT_QUOTA_THRESHOLD

\* fresh cached quota at or below the threshold
FreshAndLow(i) == FreshQuota(i) /\ Fraction(i) <= SOFT_QUOTA_THRESHOLD

C22_StaleQuotaIsHeadroom ==
    AtReferenceTime =>
        /\ \A i \in Eligible :
               StaleQuota(i) => call.result \in Eligible /\ ~FreshAndLow(call.result)
        /\ \A i \in Eligible :
               (StaleQuota(i) /\ \A j \in Eligible \ {i} : FreshAndLow(j))
                   => call.result = i
        /\ \A i \in Eligible :
               (FreshAndLow(i) /\ QuotaAge(i) = QUOTA_CACHE_TTL_MS
                    /\ \E j \in Eligible : ~HasQuota(j))
                   => call.result # i

\* the first account has a stale quota of 0 and was used before, the second,
\* never used, has an empty quota exactly as old as the window: the first is
\* returned
C22_Witness ==
    /\ AtReferenceTime /\ Len(config) = 2 /\ Eligible = {1, 2}
    /\ StaleQuota(1) /\ Fraction(1) = 0 /\ config[1].lastUsed = Tick
    /\ HasQuota(2) /\ QuotaAge(2) = QUOTA_CACHE_TTL_MS /\ Fraction(2) = 0
    /\ NeverUsed(2)
    /\ call.result = 1

\* the eligible accounts with headroom when freshness is judged against the
\* reference time of the call
C32_HeadroomAtNow ==
    { i \in Eligible :
        \/ ~HasQuota(i)
        \/ call.now - config[i].cachedImageQuota[1].updatedAt > QUOTA_CACHE_TTL_MS
        \/ Fraction(i) > SOFT_QUOTA_THRESHOLD }

\* C32: the selection is determined by the accounts, the exclusion list and
\* now: a cached quota counts as fresh exactly when now - updatedAt is within
\* the freshness window, for the now of the cooldown test, and the account
\* returned is the least recently used of the headroom pool so judged (of all
\* eligible accounts when it is empty), whatever the wall clock shows.
C32_FreshnessAgainstNow ==
    Selected =>
        call.result =
            (IF Eligible = {} THEN Null
             ELSE IF C32_HeadroomAtNow # {}
                  THEN FirstLeast(C32_HeadroomAtNow, C2_AbsentAsZero)
                  ELSE FirstLeast(Eligible, C2_AbsentAsZero))

\* C33: when an eligible account (not excluded, no active cooldown) has
\* quota headroom, the account returned is an eligible one with headroom and
\* not a soft-exceeded one, also when a soft-exceeded account has a smaller
\* lastUsed or was never used.
C33_HeadroomBeforeSoftExceeded ==
    (AtReferenceTime /\ Eligible \cap C2_Headroom # {}) =>
        /\ call.result \in Eligible \cap C2_Headroom
        /\ ~FreshAndLow(call.result)

\* the first account, never used, has a fresh empty quota; the second, used
\* before and without cached quota, is returned
C33_Witness ==
    /\ AtReferenceTime /\ Len(config) = 2 /\ Eligible = {1, 2}
    /\ FreshAndLow(1) /\ Fraction(1) = 0 /\ NeverUsed(1)
    /\ ~HasQuota(2) /\ config[2].lastUsed = Tick
    /\ call.result = 2

-----------------------------------------------------------------------------
(* Properties of the recording mutators *)

\* the mutator call made last
LastRecording == history[Len(history)]

\* the mutator calls made on one account, as positions in the history
RecordingsOn(op, email) ==
    { k \in DOMAIN history : history[k].op = op /\ history[k].email = email }

\* C23: a call of markUsed, markRateLimited or updateCachedQuota with an
\* email that matches no account returns with the accounts as they were: no
\* record is changed and none is created.
C23_UnknownEmailIsNoOp ==
    [][(history' # history /\ history'[Len(history')].email \notin EmailsOf(config))
           => config' = config]_vars

\* each of the three mutators was called with an unknown email, the accounts
\* are as makeConfig made them
C23_Witness ==
    /\ Len(history) = 3
    /\ \A k \in DOMAIN history : history[k].email = UNKNOWN_EMAIL
    /\ { history[k].op : k \in DOMAIN history }
           = { "markUsed", "markRateLimited", "updateCachedQuota" }
    /\ config = makeConfig(Len(config))

\* C24: after markRateLimited(config, email, now) on a matching account, its
\* rateLimitedUntil is exactly now + RATE_LIMIT_COOLDOWN_MS, whatever value
\* it had before.
C24_CooldownOverwritten ==
    (history # << >> /\ LastRecording.op = "markRateLimited"
        /\ Find(config, LastRecording.email) # Null)
        => config[Find(config, LastRecording.email)].rateLimitedUntil
               = LastRecording.now + RATE_LIMIT_COOLDOWN_MS

\* one account rate-limited three times: the second cooldown ends later than
\* the first, the third earlier than the second
C24_Witness ==
    /\ Len(history) = 3
    /\ RecordingsOn("markRateLimited", Email(1)) = {1, 2, 3}
    /\ history[1].now = Tick /\ history[2].now = 2 * Tick /\ history[3].now = 0
    /\ config[1].rateLimitedUntil = RATE_LIMIT_COOLDOWN_MS

\* C25: after updateCachedQuota on a matching account, its cachedImageQuota
\* is exactly the observation made: the remainingFraction and the resetTime
\* of the call (absent when none was given) and the time of the call as
\* updatedAt, whatever was cached before.
C25_QuotaOverwritten ==
    (history # << >> /\ LastRecording.op = "updateCachedQuota"
        /\ Find(config, LastRecording.email) # Null)
        => config[Find(config, LastRecording.email)].cachedImageQuota
               = Quota(LastRecording.fraction, LastRecording.resetTime,
                       LastRecording.now)

\* an observation with a resetTime is followed by one without and by a
\* third: the last one is cached, and no resetTime is left after the second
C25_Witness ==
    /\ Len(history) = 3
    /\ RecordingsOn("updateCachedQuota", Email(1)) = {1, 2, 3}
    /\ history[1].resetTime # Undefined /\ history[1].fraction = 0
    /\ history[2].resetTime = Undefined
    /\ history[3].resetTime = Undefined /\ history[3].fraction # 0
    /\ config[1].cachedImageQuota[1].resetTime = Undefined
    /\ config[1].cachedImageQuota[1].updatedAt = 3 * Tick

\* the field a mutator writes
C35_OwnField(op) ==
    CASE op = "markUsed" -> "lastUsed"
      [] op = "markRateLimited" -> "rateLimitedUntil"
      [] op = "updateCachedQuota" -> "cachedImageQuota"

\* C35: a call of markUsed, markRateLimited or updateCachedQuota leaves the
\* number and order of the records as they were, and every field of every
\* record but the mutator's own field (lastUsed, rateLimitedUntil,
\* cachedImageQuota) of the record whose email matches.
C35_OnlyOwnField ==
    [][history' # history =>
          LET recording == history'[Len(history')]
              account == Find(config, recording.email)
          IN  /\ DOMAIN config' = DOMAIN config
              /\ \A i \in DOMAIN config :
                     /\ DOMAIN config'[i] = DOMAIN config[i]
                     /\ \A field \in DOMAIN config[i] :
                            (i # account \/ field # C35_OwnField(recording.op))
                                => config'[i][field] = config[i][field]]_vars

\* the three mutators were called on the first of two accounts: its three
\* fields are set, its email and the second account are as they were
C35_Witness ==
    /\ Len(config) = 2 /\ Len(history) = 3
    /\ \A k \in DOMAIN history : history[k].email = Email(1)
    /\ history[1].op = "markRateLimited"
    /\ history[2].op = "updateCachedQuota"
    /\ history[3].op = "markUsed"
    /\ config[1].email = Email(1)
    /\ config[1].lastUsed # Undefined
    /\ config[1].rateLimitedUntil # Undefined
    /\ config[1].cachedImageQuota # NoQuota
    /\ config[2] = makeConfig(2)[2]

-----------------------------------------------------------------------------
(* Properties of the cooldown *)

\* selectAccount is asked for account i alone: all other accounts are excluded
AskedFor(i) ==
    /\ Selected
    /\ call.excludeEmails = EmailsOf(config) \ {config[i].email}

C4_NeverDuringCooldown ==
    Selected /\ call.result # Null => ~CooldownActive(config[call.result], call.now)

C4_EligibleAgain ==
    \A i \in DOMAIN config :
        (AskedFor(i) /\ config[i].rateLimitedUntil # Undefined
            /\ call.now >= config[i].rateLimitedUntil) => call.result = i

\* C4 as stated: selectAccount never returns an account whose
\* rateLimitedUntil > now, an account is eligible again for every
\* now >= rateLimitedUntil, and after markRateLimited(key, t) the account is
\* ineligible exactly for the reference times t <= now < t + cooldown
C4_IneligibleExactlyFromT ==
    /\ C4_NeverDuringCooldown
    /\ C4_EligibleAgain
    /\ \A i \in DOMAIN config :
        (AskedFor(i) /\ limitedAt[i] # Undefined) =>
            (call.result # i <=>
                (limitedAt[i] <= call.now
                    /\ call.now < limitedAt[i] + RATE_LIMIT_COOLDOWN_MS))

\* C4, amended: selectAccount never returns an account whose
\* rateLimitedUntil > now, an account is eligible again for every
\* now >= rateLimitedUntil, and after markRateLimited(key, t) the account is
\* ineligible exactly for the reference times now < t + cooldown, those
\* earlier than t included
C4_IneligibleUntilCooldownEnds ==
    /\ C4_NeverDuringCooldown
    /\ C4_EligibleAgain
    /\ \A i \in DOMAIN config :
        (AskedFor(i) /\ limitedAt[i] # Undefined) =>
            (call.result # i <=> call.now < limitedAt[i] + RATE_LIMIT_COOLDOWN_MS)

\* an account marked at t is returned again at t + cooldown
C4_Witness ==
    \E i \in DOMAIN config :
        /\ AskedFor(i) /\ limitedAt[i] # Undefined
        /\ call.now = limitedAt[i] + RATE_LIMIT_COOLDOWN_MS
        /\ call.result = i

-----------------------------------------------------------------------------
(* Properties of the rotation *)

\* the cycles made so far returned the accounts in insertion order, cyclically,
\* so that every window of as many cycles as accounts uses each account once
InRotation ==
    /\ \A k \in DOMAIN rr : rr[k].account = ((k - 1) % Len(config)) + 1
    /\ \A k \in DOMAIN rr :
        k + Len(config) - 1 <= Len(rr) =>
            { rr[j].account : j \in k..(k + Len(config) - 1) } = DOMAIN config

-----------------------------------------------------------------------------
(* generateImage: the retry and failover policy *)

AttemptsOn(u) == { k \in DOMAIN trace : trace[k].kind = "attempt" /\ trace[k].url = u }

Answered(k, status) ==
    trace[k].response.kind = "http" /\ trace[k].response.status = status

\* a 2xx response whose body holds an image with data and no error event
Succeeded(k) ==
    /\ trace[k].response.kind = "http"
    /\ trace[k].response.status \in 200..299
    /\ ~trace[k].response.sseError
    /\ \E i \in DOMAIN trace[k].response.images : trace[k].response.images[i] # ""

FirstImage(images) ==
    images[CHOOSE i \in DOMAIN images :
              images[i] # "" /\ \A j \in 1..(i - 1) : images[j] = ""]

OnlyCapacityErrors(u) ==
    AttemptsOn(u) # {} /\ \A k \in AttemptsOn(u) : Answered(k, 503)

\* C6: an endpoint that answered 503 on every attempt gets at most
\* CAPACITY_RETRY_COUNT + 1 attempts, is still the current endpoint while it
\* got fewer, and is left for the next endpoint (or, being the last, for the
\* return) once it got exactly that many; when the next endpoint then succeeds
\* on its first attempt the call returns a success.
C6_CapacityRetriesThenNextEndpoint ==
    \A u \in DOMAIN CLOUDCODE_FALLBACK_URLS :
        OnlyCapacityErrors(u) =>
            /\ Cardinality(AttemptsOn(u)) <= CAPACITY_RETRY_COUNT + 1
            /\ Cardinality(AttemptsOn(u)) < CAPACITY_RETRY_COUNT + 1
                   => baseUrl = u /\ pc \in {"sleep", "attempt"} /\ AttemptsOn(u + 1) = {}
            /\ Cardinality(AttemptsOn(u)) = CAPACITY_RETRY_COUNT + 1
                   => IF u < Len(CLOUDCODE_FALLBACK_URLS)
                      THEN baseUrl > u \/ pc = "done"
                      ELSE pc = "done"
            /\ \A k \in AttemptsOn(u + 1) :
                   (trace[k].retry = 0 /\ Succeeded(k) /\ pc = "done") => result.success

C6_Witness ==
    /\ pc = "done" /\ result.success
    /\ OnlyCapacityErrors(1)
    /\ Cardinality(AttemptsOn(1)) = CAPACITY_RETRY_COUNT + 1
    /\ Cardinality(AttemptsOn(2)) = 1
    /\ \A k \in AttemptsOn(2) : Succeeded(k)

\* C7: after an attempt answered 429 nothing more happens on its endpoint, no
\* attempt and no sleep: what follows in the trace, if anything, is the first
\* attempt on the next endpoint, and while nothing follows the call has either
\* returned or stands before that attempt.
C7_RateLimitedMovesOnAtOnce ==
    \A k \in DOMAIN trace :
        (trace[k].kind = "attempt" /\ Answered(k, 429)) =>
            /\ \A j \in (k + 1)..Len(trace) : trace[j].url # trace[k].url
            /\ k < Len(trace) =>
                   /\ trace[k + 1].kind = "attempt"
                   /\ trace[k + 1].url = trace[k].url + 1
                   /\ trace[k + 1].retry = 0
            /\ k = Len(trace) =>
                   \/ pc = "done"
                   \/ pc = "attempt" /\ baseUrl = trace[k].url + 1 /\ retry = 0

C7_Witness ==
    /\ Len(trace) = 4
    /\ Answered(1, 503)
    /\ trace[2].kind = "sleep"
    /\ Answered(3, 429) /\ trace[3].url = 1
    /\ trace[4].kind = "attempt" /\ trace[4].url = 2

\* an outcome other than success, 429 and 503
OtherOutcome(k) ==
    /\ trace[k].kind = "attempt"
    /\ ~Succeeded(k)
    /\ ~Answered(k, 429)
    /\ ~Answered(k, 503)

\* C8: an attempt that ended in a timeout or another error (anything but
\* success, 429, 503) is the last event of the call, and the call has returned
\* that attempt's failure.
C8_OtherErrorReturnsAtOnce ==
    \A k \in DOMAIN trace :
        OtherOutcome(k) =>
            /\ k = Len(trace)
            /\ pc = "done"
            /\ ~result.success
            /\ result = attemptGeneration(trace[k].response).result
            /\ trace[k].response.kind = "abort" => result.error = "Timeout after 120s"
            /\ (trace[k].response.kind = "http" /\ trace[k].response.status = 500)
                   => result.error = "HTTP 500"

C8_Witness ==
    /\ pc = "done"
    /\ Len(trace) = 3
    /\ Answered(1, 503)
    /\ trace[3].url = 1 /\ trace[3].response.kind = "abort"

\* C9: an attempt that succeeded is the last event of the call, whatever came
\* before it: the call is fetching the quota or has returned, and its result
\* is a success carrying the first image of that attempt's response.
C9_SuccessReturnsAtOnce ==
    \A k \in DOMAIN trace :
        (trace[k].kind = "attempt" /\ Succeeded(k)) =>
            /\ k = Len(trace)
            /\ pc \in {"getImageModelQuota", "done"}
            /\ result.success
            /\ result.imageData = FirstImage(trace[k].response.images)

C9_Witness ==
    /\ pc = "done"
    /\ Len(trace) = 4
    /\ Answered(1, 503)
    /\ Answered(3, 429)
    /\ Succeeded(4) /\ trace[4].url = 2
    /\ result.imageData = "imageB"

EveryEndpointAnswered(status) ==
    \A u \in DOMAIN CLOUDCODE_FALLBACK_URLS :
        AttemptsOn(u) # {} /\ \A k \in AttemptsOn(u) : Answered(k, status)

\* C10: when the call has returned and every endpoint answered 429 to every
\* attempt made on it, the result is a failure with isRateLimited true and
\* isCapacityError false.
C10_AllRateLimitedAggregate ==
    (pc = "done" /\ EveryEndpointAnswered(429)) =>
        /\ ~result.success
        /\ result.isRateLimited = TRUE
        /\ result.isCapacityError = FALSE

C10_Witness ==
    /\ pc = "done"
    /\ EveryEndpointAnswered(429)
    /\ Len(trace) = Len(CLOUDCODE_FALLBACK_URLS)
    /\ result.error = "HTTP 429"

\* C11: when the call has returned and every endpoint answered 503 to every
\* attempt made on it, each endpoint got all its attempts and the result is a
\* failure with isCapacityError true and isRateLimited false.
C11_AllCapacityAggregate ==
    (pc = "done" /\ EveryEndpointAnswered(503)) =>
        /\ \A u \in DOMAIN CLOUDCODE_FALLBACK_URLS :
               Cardinality(AttemptsOn(u)) = CAPACITY_RETRY_COUNT + 1
        /\ ~result.success
        /\ result.isCapacityError = TRUE
        /\ result.isRateLimited = FALSE

C11_Witness ==
    /\ pc = "done"
    /\ EveryEndpointAnswered(503)
    /\ Cardinality(AttemptsOn(Len(CLOUDCODE_FALLBACK_URLS))) = CAPACITY_RETRY_COUNT + 1
    /\ result.error = "HTTP 503"

\* the attempts of the call, as positions in the trace
C34_Attempts == { k \in DOMAIN trace : trace[k].kind = "attempt" }

\* C34: a returned result has isRateLimited only if the call made attempts
\* and every one of them answered 429 (one on each endpoint), and
\* isCapacityError only if every one answered 503; and the caller applies a
\* cooldown to an account only straight after a generateImage call for that
\* account came back rate-limited.
C34_FlagsNeedEveryAttempt ==
    /\ (pc = "done" /\ result.isRateLimited) =>
           /\ ~result.success
           /\ EveryEndpointAnswered(429)
           /\ Cardinality(C34_Attempts) = Len(CLOUDCODE_FALLBACK_URLS)
    /\ (pc = "done" /\ result.isCapacityError) =>
           /\ ~result.success
           /\ EveryEndpointAnswered(503)
    /\ \A k \in DOMAIN history :
           (history[k].kind = "apply" /\ history[k].op = "markRateLimited") =>
               /\ k > 1
               /\ history[k - 1].kind = "return"
               /\ history[k - 1].op = "rate-limited"
               /\ history[k - 1].email = history[k].email

\* two endpoints answered 429 and the last one 503 on every attempt: the
\* aggregate failure carries neither flag, and no cooldown was applied
C34_Witness ==
    /\ pc = "done"
    /\ exec[1].pc = "generateImage"
    /\ \A u \in 1..(Len(CLOUDCODE_FALLBACK_URLS) - 1) :
           AttemptsOn(u) # {} /\ \A k \in AttemptsOn(u) : Answered(k, 429)
    /\ Cardinality(AttemptsOn(Len(CLOUDCODE_FALLBACK_URLS))) = CAPACITY_RETRY_COUNT + 1
    /\ \A k \in AttemptsOn(Len(CLOUDCODE_FALLBACK_URLS)) : Answered(k, 503)
    /\ ~result.success /\ ~result.isRateLimited /\ ~result.isCapacityError
    /\ \A k \in DOMAIN history : history[k].kind # "apply"

\* C38: no result that generateImage returns, and none it holds while
\* fetching the quota, has isRateLimited and isCapacityError both true.
C38_FlagsExclusive ==
    pc \in {"done", "getImageModelQuota"} =>
        ~(result.isRateLimited /\ result.isCapacityError)

\* the first endpoint answered 503 on all its attempts and the others 429:
\* the aggregate failure carries the last error and neither flag
C38_Witness ==
    /\ pc = "done"
    /\ Cardinality(AttemptsOn(1)) = CAPACITY_RETRY_COUNT + 1
    /\ \A k \in AttemptsOn(1) : Answered(k, 503)
    /\ \A u \in 2..Len(CLOUDCODE_FALLBACK_URLS) :
           AttemptsOn(u) # {} /\ \A k \in AttemptsOn(u) : Answered(k, 429)
    /\ result.error = "HTTP 429"
    /\ ~result.isRateLimited /\ ~result.isCapacityError

\* the generation attempts made so far, as positions in the trace
C39_Attempts == { k \in DOMAIN trace : trace[k].kind = "attempt" }

\* C39: at every point of a generateImage call at most
\* |endpoints| * (CAPACITY_RETRY_COUNT + 1) = 12 attempts were made, at most
\* CAPACITY_RETRY_COUNT + 1 = 4 on any one endpoint, the first on the first
\* endpoint and each next one on the same endpoint or on the one following
\* it in the list.
C39_AttemptsBounded ==
    /\ Cardinality(C39_Attempts) <= Len(CLOUDCODE_FALLBACK_URLS) * (CAPACITY_RETRY_COUNT + 1)
    /\ Cardinality(C39_Attempts) <= 12
    /\ \A u \in DOMAIN CLOUDCODE_FALLBACK_URLS :
           Cardinality(AttemptsOn(u)) <= CAPACITY_RETRY_COUNT + 1
    /\ \A k \in C39_Attempts :
           /\ trace[k].url \in DOMAIN CLOUDCODE_FALLBACK_URLS
           /\ IF \A j \in C39_Attempts : j >= k
              THEN trace[k].url = 1
              ELSE LET before == CHOOSE j \in C39_Attempts :
                                     j < k /\ \A i \in C39_Attempts : i < k => i <= j
                   IN  trace[k].url \in { trace[before].url, trace[before].url + 1 }

\* every attempt answered 503 but the last one, which succeeded: twelve
\* attempts, four on each endpoint
C39_Witness ==
    /\ pc = "done"
    /\ Cardinality(C39_Attempts) = 12
    /\ \A u \in DOMAIN CLOUDCODE_FALLBACK_URLS : Cardinality(AttemptsOn(u)) = 4
    /\ result.success

\* the backoff before retry number r with the default constants
C26_Backoff(r) ==
    CASE r = 1 -> 3000
      [] r = 2 -> 6000
      [] r = 3 -> 12000
      [] OTHER -> 0

\* C26: every sleep of the call stands before retry number r of its endpoint,
\* r in 1..CAPACITY_RETRY_COUNT, right after the attempt r - 1 on that
\* endpoint answered 503, and lasts 3 s, 6 s, 12 s for r = 1, 2, 3; the attempt
\* that follows it is retry r on the same endpoint.  The first attempt on an
\* endpoint has retry 0 and no sleep before it, and every later attempt on
\* the endpoint has its sleep right before it.
C26_BackoffPerEndpoint ==
    /\ \A k \in DOMAIN trace :
           trace[k].kind = "sleep" =>
               /\ trace[k].retry \in 1..CAPACITY_RETRY_COUNT
               /\ trace[k].delay = C26_Backoff(trace[k].retry)
               /\ k > 1
               /\ trace[k - 1].kind = "attempt"
               /\ trace[k - 1].url = trace[k].url
               /\ trace[k - 1].retry = trace[k].retry - 1
               /\ Answered(k - 1, 503)
               /\ k < Len(trace) =>
                      /\ trace[k + 1].kind = "attempt"
                      /\ trace[k + 1].url = trace[k].url
                      /\ trace[k + 1].retry = trace[k].retry
    /\ \A k \in DOMAIN trace :
           trace[k].kind = "attempt" =>
               IF k = 1 \/ trace[k - 1].url # trace[k].url
               THEN /\ trace[k].retry = 0
                    /\ k > 1 => trace[k - 1].kind = "attempt"
               ELSE /\ trace[k].retry > 0
                    /\ trace[k - 1].kind = "sleep"
                    /\ trace[k - 1].retry = trace[k].retry

\* the first endpoint was retried after 3 s, 6 s and 12 s, the second was
\* tried at once and its first retry waits 3 s again
C26_Witness ==
    /\ Len(trace) = 9
    /\ trace[2].kind = "sleep" /\ trace[2].delay = 3000
    /\ trace[4].kind = "sleep" /\ trace[4].delay = 6000
    /\ trace[6].kind = "sleep" /\ trace[6].delay = 12000
    /\ trace[7].kind = "attempt" /\ trace[7].url = 1 /\ trace[7].retry = 3
    /\ trace[8].kind = "attempt" /\ trace[8].url = 2 /\ trace[8].retry = 0
    /\ trace[9].kind = "sleep" /\ trace[9].url = 2 /\ trace[9].delay = 3000

-----------------------------------------------------------------------------
(* generate_image.execute: the caller loop *)

\* the events of one kind that call c left in the history, in order
EventsOf(c, kind) ==
    SelectSeq(history, LAMBDA ev : ev.call = c /\ ev.kind = kind)

\* C12: within one logical call no account is handed to generateImage twice:
\* the accounts dispatched are pairwise different, every account whose
\* execution failed is on the exclusion list whatever the failure was (all
\* dispatched ones but one still under way or successful), and the account
\* selected last is not on it.
C12_NoCredentialTwice ==
    \A c \in Calls :
        LET d == EventsOf(c, "dispatch")
            r == EventsOf(c, "return")
        IN  /\ \A i, j \in DOMAIN d : i # j => d[i].email # d[j].email
            /\ \A i \in DOMAIN r :
                   (r[i].op # "success" /\ exec[c].pc \in {"generateImage", "done"})
                       => r[i].email \in Range(exec[c].excludeEmails)
            /\ exec[c].pc = "generateImage"
                   => exec[c].config[exec[c].account].email
                          \notin Range(exec[c].excludeEmails)

\* three accounts were dispatched after a rate limit, exhausted capacity and
\* a timeout
C12_Witness ==
    /\ Len(EventsOf(1, "dispatch")) = 3
    /\ Len(exec[1].errors) = 3
    /\ exec[1].errors[1].reason = "rate-limited"
    /\ exec[1].errors[2].reason = "no capacity (503, retries exhausted)"
    /\ exec[1].errors[3].reason = "Timeout after 120s"

\* how a call that returned has left the loop: without accounts before the
\* loop, at the success of the account dispatched last, or with the failure
\* summary when the selection returned null or MAX_RETRIES accounts had failed
C13_LeftLoop(c) ==
    LET e == exec[c]
        r == EventsOf(c, "return")
    IN  \/ e.response = "noAccounts" /\ Len(e.loaded) = 0 /\ Len(r) = 0
        \/ /\ e.response = "success"
           /\ Len(r) > 0 /\ r[Len(r)].op = "success"
           /\ \A i \in 1..(Len(r) - 1) : r[i].op # "success"
        \/ /\ e.response = "failed"
           /\ \A i \in DOMAIN r : r[i].op # "success"
           /\ Len(r) = Len(e.errors)
           /\ \/ Len(e.errors) = MAX_RETRIES
              \/ selectAccount(e.config, Range(e.excludeEmails), clock, clock) = Null

C13_Bounded ==
    \A c \in Calls :
        /\ Len(EventsOf(c, "dispatch")) <= MAX_RETRIES
        /\ exec[c].pc = "done" => C13_LeftLoop(c)

C14_Successful(c) ==
    LET r == EventsOf(c, "return")
    IN  { i \in DOMAIN exec[c].config :
            \E k \in DOMAIN r :
                r[k].op = "success" /\ r[k].email = exec[c].config[i].email }

\* C14: in a logical call markUsed is applied to the account whose execution
\* succeeded, with the time of the success, and to no other: an account whose
\* execution failed, or that was not tried, has the lastUsed it was loaded
\* with; after the success no further account is dispatched in that call.
C14_MarkUsedOnSuccessOnly ==
    \A c \in Calls :
        LET e == exec[c]
            applied == SelectSeq(EventsOf(c, "apply"), LAMBDA ev : ev.op = "markUsed")
        IN  /\ \A i \in DOMAIN e.config :
                   IF i \in C14_Successful(c)
                   THEN /\ Len(applied) = 1
                        /\ applied[1].email = e.config[i].email
                        /\ e.config[i].lastUsed = applied[1].at
                   ELSE e.config[i].lastUsed = e.loaded[i].lastUsed
            /\ C14_Successful(c) = {} => Len(applied) = 0
            /\ \A j, k \in DOMAIN history :
                   (history[j].call = c /\ history[j].kind = "return"
                        /\ history[j].op = "success" /\ j < k /\ history[k].call = c)
                       => history[k].kind # "dispatch"

\* the second call fails on the account the first call used and succeeds on
\* the other
C14_Witness ==
    /\ exec[2].pc = "done" /\ exec[2].response = "success"
    /\ Len(exec[2].errors) = 1
    /\ exec[2].loaded[exec[2].account].lastUsed = Undefined
    /\ \E i \in DOMAIN exec[2].config :
           /\ exec[2].config[i].email = exec[2].errors[1].email
           /\ exec[2].config[i].lastUsed # Undefined
    /\ exec[2].config[exec[2].account].lastUsed > 0

\* the accounts of call c whose execution came back with the given outcomes
C15_Returned(c, outcomes) ==
    LET r == EventsOf(c, "return")
    IN  { i \in DOMAIN exec[c].config :
            \E k \in DOMAIN r :
                r[k].op \in outcomes /\ r[k].email = exec[c].config[i].email }

\* C15: in a logical call an account's cooldown is recorded exactly when its
\* execution failed rate-limit-classified: such an account has
\* rateLimitedUntil at the time of the failure plus the cooldown, and every
\* other account (success, exhausted capacity, timeout, failed token
\* exchange, not tried) has the rateLimitedUntil it was loaded with.
C15_CooldownOnRateLimitOnly ==
    \A c \in Calls :
        LET e == exec[c]
            applied == SelectSeq(EventsOf(c, "apply"),
                                 LAMBDA ev : ev.op = "markRateLimited")
        IN  /\ \A i \in DOMAIN e.config :
                   IF i \in C15_Returned(c, {"rate-limited"})
                   THEN \E k \in DOMAIN applied :
                            /\ applied[k].email = e.config[i].email
                            /\ e.config[i].rateLimitedUntil
                                   = applied[k].at + RATE_LIMIT_COOLDOWN_MS
                            /\ e.config[i].rateLimitedUntil # e.loaded[i].rateLimitedUntil
                   ELSE e.config[i].rateLimitedUntil = e.loaded[i].rateLimitedUntil
            /\ Len(applied) = Cardinality(C15_Returned(c, {"rate-limited"}))

\* a call in which one account failed for exhausted capacity and another
\* rate-limited: only the second got a cooldown
C15_Witness ==
    /\ exec[1].pc = "done"
    /\ Len(exec[1].errors) = 2
    /\ C15_Returned(1, {"capacity"}) # {}
    /\ C15_Returned(1, {"rate-limited"}) # {}
    /\ \A i \in C15_Returned(1, {"capacity"}) :
           exec[1].config[i].rateLimitedUntil = Undefined
    /\ \A i \in C15_Returned(1, {"rate-limited"}) :
           exec[1].config[i].rateLimitedUntil # Undefined

\* C27: recording an outcome never aborts the logical call: a call ends by
\* returning, with its success payload when an execution succeeded, and a
\* call that has not ended after a rate-limited execution goes on to the next
\* account; no call ends by the exception of a recording.
C27_RecordingNeverAborts ==
    \A c \in Calls :
        /\ exec[c].pc # "thrown"
        /\ (exec[c].pc = "done" /\ \E k \in DOMAIN EventsOf(c, "return") :
                                      EventsOf(c, "return")[k].op = "success")
               => exec[c].response = "success"

\* C28: the failure message of a logical call follows the classified
\* outcomes of the accounts tried: it says that no account was available
\* exactly when none was dispatched, else it lists the accounts tried in order,
\* each with its own reason; the rate-limit hint is there exactly when an
\* account tried failed rate-limit-classified, the capacity hint exactly when
\* one failed capacity-classified.
C28_SummaryFollowsClassification ==
    \A c \in Calls :
        (exec[c].pc = "done" /\ exec[c].response = "failed") =>
            LET r == EventsOf(c, "return")
                msg == Summary(exec[c].errors)
            IN  /\ msg.noAccounts <=> Len(EventsOf(c, "dispatch")) = 0
                /\ Len(msg.tried) = Len(r)
                /\ \A k \in DOMAIN r :
                       /\ msg.tried[k].email = r[k].email
                       /\ msg.tried[k].reason =
                              (CASE r[k].op = "rate-limited" -> "rate-limited"
                                 [] r[k].op = "capacity" ->
                                        "no capacity (503, retries exhausted)"
                                 [] OTHER -> r[k].op)
                /\ msg.rateLimitHint <=> \E k \in DOMAIN r : r[k].op = "rate-limited"
                /\ msg.capacityHint <=> \E k \in DOMAIN r : r[k].op = "capacity"

\* the executions of the call that came back with a failed token exchange,
\* as positions in the history
C29_TokenFailures ==
    { j \in DOMAIN history :
        history[j].kind = "return" /\ history[j].op = "Token refresh failed" }

\* C29: a generateImage call whose token exchange failed returns without
\* having made an attempt on any endpoint, its failure carrying neither flag;
\* the caller loop then excludes the account and dispatches the next one (or
\* returns its failure summary when there is none), and the failed account
\* keeps the record it was loaded with: no use and no cooldown is applied or
\* written for it.
C29_TokenFailureMovesOn ==
    /\ (pc = "done" /\ result.error = "Token refresh failed") =>
           /\ trace = << >>
           /\ ~result.success /\ ~result.isRateLimited /\ ~result.isCapacityError
    /\ \A j \in C29_TokenFailures :
           LET email == history[j].email
               i == Find(exec[1].config, email)
           IN  /\ exec[1].config[i] = exec[1].loaded[i]
               /\ store[i] = exec[1].loaded[i]
               /\ \A k \in DOMAIN history :
                      history[k].kind \in {"apply", "persist"} => history[k].email # email
               /\ email \in Range(exec[1].excludeEmails)
               /\ IF j < Len(history)
                  THEN history[j + 1].kind = "dispatch" /\ history[j + 1].email # email
                  ELSE exec[1].pc = "done" /\ exec[1].response = "failed"

\* the token exchange of the first account failed, the second account was
\* dispatched next and its execution succeeded
C29_Witness ==
    /\ Len(store) = 2
    /\ exec[1].pc = "done" /\ exec[1].response = "success"
    /\ \E j \in C29_TokenFailures :
           /\ history[j].email = Email(1)
           /\ history[j + 1].kind = "dispatch" /\ history[j + 1].email = Email(2)
    /\ store[1].lastUsed = Undefined /\ store[1].rateLimitedUntil = Undefined
    /\ store[2].lastUsed # Undefined

\* call 1 has returned the success of a generateImage call that came back
\* without a quota
C36_SucceededWithoutQuota ==
    /\ exec[1].pc = "done" /\ exec[1].response = "success"
    /\ ~exec[1].result.quota

\* C36: a generateImage call whose last attempt succeeded returns that
\* success whether or not the quota fetch after it failed; when it failed the
\* result carries no quota, and the caller, having returned, has recorded
\* and saved the use of the account and left its cachedImageQuota as loaded,
\* without any updateCachedQuota.
C36_QuotaIsBestEffort ==
    /\ (pc = "done" /\ trace # << >> /\ Succeeded(Len(trace))) =>
           /\ result.success
           /\ result.imageData = FirstImage(trace[Len(trace)].response.images)
    /\ C36_SucceededWithoutQuota =>
           LET i == exec[1].account
           IN  /\ store[i].lastUsed # Undefined
               /\ store[i].lastUsed # exec[1].loaded[i].lastUsed
               /\ store[i].cachedImageQuota = exec[1].loaded[i].cachedImageQuota
               /\ \E k \in DOMAIN history :
                      /\ history[k].kind = "persist" /\ history[k].op = "markUsed"
                      /\ history[k].email = store[i].email
               /\ \A k \in DOMAIN history : history[k].op # "updateCachedQuota"

\* the first account's call succeeded on its first attempt and came back
\* without a quota: the call returned its success, the use is in the file
C36_Witness ==
    /\ C36_SucceededWithoutQuota
    /\ exec[1].account = 1 /\ exec[1].attempt = 0
    /\ exec[1].result.success /\ exec[1].result.imageData = "imageA"
    /\ store[1].lastUsed # Undefined
    /\ store[1].cachedImageQuota = NoQuota

\* failures that are neither rate-limit- nor capacity-classified
C30_OtherErrors == { "Timeout after 120s", "Token refresh failed" }

\* every execution of call 1 failed with a timeout or another error
C30_OnlyOtherErrors ==
    \A k \in DOMAIN EventsOf(1, "return") :
        EventsOf(1, "return")[k].op \in C30_OtherErrors

\* after a timeout or another error the loop goes on: the next event is the
\* dispatch of an account not yet tried, or the call has returned its failure
C30_Advances ==
    \A j \in DOMAIN history :
        (history[j].kind = "return" /\ history[j].op \in C30_OtherErrors) =>
            IF j < Len(history)
            THEN /\ history[j + 1].kind = "dispatch"
                 /\ \A k \in 1..j : history[k].kind = "dispatch"
                        => history[k].email # history[j + 1].email
            ELSE exec[1].pc = "done" /\ exec[1].response = "failed"

\* C30 as stated: when the executions fail with timeouts or other errors the
\* loop keeps advancing, and every eligible account of the set has been
\* dispatched once before the call is reported as failed
C30_EveryCredentialOneChance ==
    /\ C30_Advances
    /\ (exec[1].pc = "done" /\ exec[1].response = "failed" /\ C30_OnlyOtherErrors) =>
           \A i \in DOMAIN exec[1].config :
               \E k \in DOMAIN EventsOf(1, "dispatch") :
                   EventsOf(1, "dispatch")[k].email = exec[1].config[i].email

\* C30, amended: when the executions fail with timeouts or other errors the
\* loop keeps advancing, and the call is reported as failed once every
\* eligible account or MAX_RETRIES of them, whichever is fewer, have been
\* dispatched once each, in the order of the selection
C30_OneChanceWithinMaxRetries ==
    /\ C30_Advances
    /\ (exec[1].pc = "done" /\ exec[1].response = "failed" /\ C30_OnlyOtherErrors) =>
           LET d == EventsOf(1, "dispatch")
               n == Len(exec[1].config)
           IN  /\ Len(d) = (IF n < MAX_RETRIES THEN n ELSE MAX_RETRIES)
               /\ \A k \in DOMAIN d : d[k].email = exec[1].config[k].email

\* four accounts never used: three are dispatched and fail with a timeout, a
\* failed token exchange and a timeout, the fourth is not tried
C30_Witness ==
    /\ Len(store) = MAX_RETRIES + 1
    /\ exec[1].pc = "done" /\ exec[1].response = "failed"
    /\ Len(exec[1].errors) = MAX_RETRIES
    /\ exec[1].errors[1].reason = "Timeout after 120s"
    /\ exec[1].errors[2].reason = "Token refresh failed"
    /\ exec[1].errors[3].reason = "Timeout after 120s"
    /\ \A k \in DOMAIN history : history[k].email # Email(MAX_RETRIES + 1)

-----------------------------------------------------------------------------
(* The cooldown across logical calls *)

\* the cooldowns written to the accounts file
C16_Recordings ==
    { j \in DOMAIN history :
        history[j].kind = "persist" /\ history[j].op = "markRateLimited" }

\* the dispatches made by calls that started after the recording j
C16_LaterDispatches(j) ==
    { k \in DOMAIN history :
        /\ history[k].kind = "dispatch"
        /\ history[k].call > history[j].call
        /\ history[k].email = history[j].email }

C16_StartedAt(c) == EventsOf(c, "load")[1].at

-----------------------------------------------------------------------------
(* attemptGeneration: the timeout *)

\* C17: an attempt has ended with its outcome once the per-attempt timeout
\* has elapsed since its start: none is still pending, in the request or in
\* the reading of the body, after more than IMAGE_GENERATION_TIMEOUT_MS.
C17_EndsWithinTimeout ==
    req.elapsed > IMAGE_GENERATION_TIMEOUT_MS => req.phase = "done"

-----------------------------------------------------------------------------
(* Concurrent logical calls on one accounts file *)

\* the recordings of one operation on one account that were written to the
\* accounts file, as positions in the history
C18_Persisted(email, op) ==
    { j \in DOMAIN history :
        history[j].kind = "persist" /\ history[j].op = op /\ history[j].email = email }

Latest(positions) == CHOOSE j \in positions : \A k \in positions : k <= j

\* the field holds the value of the latest recording, or is absent when there
\* was none
C18_Holds(email, op, value) ==
    IF C18_Persisted(email, op) = {}
    THEN value = Undefined
    ELSE value = history[Latest(C18_Persisted(email, op))].value

\* C18: when the concurrent logical calls have finished, every account of
\* the accounts file holds in lastUsed, rateLimitedUntil and cachedImageQuota
\* the value written by the latest recording on that account: no recording
\* of one call is lost or reverted by the other.
C18_NoRecordingLost ==
    (\A c \in Calls : Ended(c)) =>
        \A i \in DOMAIN store :
            /\ C18_Holds(store[i].email, "markUsed", store[i].lastUsed)
            /\ C18_Holds(store[i].email, "markRateLimited", store[i].rateLimitedUntil)
            /\ C18_Holds(store[i].email, "updateCachedQuota",
                         IF store[i].cachedImageQuota = NoQuota THEN Undefined
                         ELSE store[i].cachedImageQuota[1].remainingFraction)

\* the accounts as the file and the calls under way hold them
C37_Copies == { store } \cup { exec[c].config : c \in { d \in Calls : exec[d].pc # "idle" } }

\* some call applied the recording `op` with this value to the account
C37_Applied(op, email, value) ==
    \E k \in DOMAIN history :
        /\ history[k].kind = "apply" /\ history[k].op = op
        /\ history[k].email = email /\ history[k].value = value

\* C37: whatever the interleaving of the concurrent calls, selecting and
\* dispatching an account writes nothing, and the accounts in the file and in
\* every call's memory stay well-formed: the same accounts in the same
\* order, lastUsed absent or the time a markUsed applied straight after a
\* success of that account, rateLimitedUntil absent or the end of a cooldown
\* a markRateLimited applied, cachedImageQuota absent or a quota an
\* updateCachedQuota applied.
C37_DoubleUseKeepsRecordsValid ==
    /\ \A accounts \in C37_Copies :
           /\ DOMAIN accounts = DOMAIN store
           /\ \A i \in DOMAIN accounts :
                  LET a == accounts[i]
                  IN  /\ a.email = Email(i)
                      /\ a.lastUsed # Undefined =>
                             /\ a.lastUsed <= clock
                             /\ \E k \in DOMAIN history :
                                    /\ history[k].kind = "apply"
                                    /\ history[k].op = "markUsed"
                                    /\ history[k].email = a.email
                                    /\ history[k].value = a.lastUsed
                                    /\ history[k - 1].kind = "return"
                                    /\ history[k - 1].op = "success"
                                    /\ history[k - 1].call = history[k].call
                                    /\ history[k - 1].email = a.email
                      /\ a.rateLimitedUntil # Undefined =>
                             /\ a.rateLimitedUntil <= clock + RATE_LIMIT_COOLDOWN_MS
                             /\ C37_Applied("markRateLimited", a.email, a.rateLimitedUntil)
                      /\ a.cachedImageQuota # NoQuota =>
                             /\ a.cachedImageQuota[1].updatedAt <= clock
                             /\ C37_Applied("updateCachedQuota", a.email,
                                            a.cachedImageQuota[1].remainingFraction)
    /\ \A c \in Calls :
           exec[c].pc = "generateImage" =>
               exec[c].config[exec[c].account].lastUsed
                   = exec[c].loaded[exec[c].account].lastUsed

\* both calls loaded the file of two never-used accounts before either had
\* recorded anything, were both dispatched with the first account and both
\* succeeded on it: the second account was never used
C37_Witness ==
    /\ Len(store) = 2
    /\ \A c \in Calls :
           /\ exec[c].pc = "done" /\ exec[c].response = "success"
           /\ exec[c].account = 1 /\ exec[c].attempt = 0
           /\ exec[c].loaded = makeConfig(2)
    /\ store[1].lastUsed # Undefined
    /\ store[2].lastUsed = Undefined

-----------------------------------------------------------------------------
(* Sessions *)

\* C31: saving or deleting the session of one id leaves what loadSession
\* returns for every other id as it was, and a session that loadSession
\* returns for an id is one saved under that id.
C31_SessionsIndependent ==
    /\ [][call'.op \in {"saveSession", "deleteSession"} =>
             \A other \in SessionIds \ {call'.id} :
                 loadSession(sessions', other) = loadSession(sessions, other)]_vars
    /\ [](\A id \in SessionIds :
             loadSession(sessions, id) # << >> => loadSession(sessions, id)[1].id = id)

\* the history alternates user, model and ends with a model turn
C40_Alternates(turns) ==
    /\ Len(turns) % 2 = 0
    /\ \A k \in DOMAIN turns :
           turns[k].role = IF k % 2 = 1 THEN "user" ELSE "model"

\* C40: every stored session history alternates user, model; after a
\* successful call with a session id the stored history of that id is the
\* one stored before followed by one user turn and one model turn, after a
\* failed call it is the one stored before.
C40_OneUserOneModelTurn ==
    /\ \A id \in TurnIds :
           C40_Alternates(getSessionHistory(LoadOrCreate(sessions, id)))
    /\ call.op = "generate_image" =>
           getSessionHistory(LoadOrCreate(sessions, call.id))
               = IF call.result
                 THEN call.before \o << Turn("user"), Turn("model") >>
                 ELSE call.before

====
